---- MODULE Spec2Model ----
(***************************************************************************)
(* Model of the fill ledger of rusty_hyperliquid_ledger:                   *)
(*   - the paginated fetcher   (hl-ingestion/src/api_client.rs)            *)
(*   - the streaming collector (hl-ingestion/src/ws_collector.rs)          *)
(*   - the fetch source switch (hl-indexer/src/indexer.rs,                 *)
(*                              hl-ingestion/src/hyperliquid.rs)           *)
(*   - the taint tracker       (hl-indexer/src/taint.rs)                   *)
(*   - the leaderboard         (hl-indexer/src/leaderboard.rs)             *)
(*   - the PnL tracker         (hl-types/src/pnl.rs)                       *)
(*   - the builder enricher    (hl-builder-data/src/enricher.rs)           *)
(*   - the builder feed client (hl-builder-data/src/client.rs)             *)
(*   - the leaderboard handler (hl-api/src/handlers.rs)                    *)
(* Each component has its own specification over the shared variable       *)
(* tuple; the variables of the other components keep their initial value.  *)
(***************************************************************************)
EXTENDS Integers, Sequences, FiniteSets, TLC

VARIABLES
    \* ---- ApiClient::user_fills_by_time (one call) ----
    f_pc,              \* "loop" | "ok" | "err"
    f_start,           \* the start_time argument (i64)
    all_fills,         \* local Vec<Fill>
    seen_tids,         \* local HashSet<u64>
    current_end_time,  \* local Option<i64>, the pagination cursor
    f_ret,             \* the Vec returned with Ok
    first_recv,        \* history: tid -> first fill received with that tid
    f_dup,             \* history: some tid was received more than once
    f_end,             \* the end_time argument (Option<i64>)
    f_err,             \* the error returned with Err, and what caused it
    f_honest,          \* history: no page held a fill later than its endTime
    f_ledger,          \* the fills of the user the exchange holds
    \* ---- FillCollector / CollectorHandle / Indexer ----
    is_running,        \* Arc<RwLock<bool>>
    store,             \* Arc<RwLock<HashMap<u64, Fill>>>: tid -> fill
    c_pc,              \* per caller: position inside start() / stop()
    c_ret,             \* per caller: result of the last start() call
    task_pc,           \* per spawned task: position inside the task body
    last_recv,         \* history: tid -> last fill received since clear()
    c_dup,             \* history: some tid was received again since clear()
    q_call,            \* the read just made and its result (NoCall otherwise)
    fill_source,       \* IndexerConfig::fill_source: "Api" | "WebSocket"
    stop_returned,     \* history: a stop() has returned and no start() has run since
    w_guard,           \* fills the holder of fills.write() has yet to insert (<<>>: lock free)
    \* ---- PositionLifecycleTracker / analyze_user_taint ----
    a_fills,           \* the user's fills so far, in arrival order
    a_builder,         \* the checker: the trade ids it classifies as builder
    tracker,           \* a PositionLifecycleTracker fed fill by fill
    pf_ret,            \* return value of the last process_fill
    a_result,          \* analyze_user_taint(a_fills, checker), once called
    \* ---- rank_leaderboard (one call) ----
    r_pc,              \* "input" | "ranked"
    r_stats,           \* the stats argument: Vec<UserStats>
    r_metric,          \* the metric argument
    r_builder_only,    \* the _builder_only argument
    r_entries,         \* the Vec<LeaderboardEntry> returned
    \* ---- calculate_leaderboard (one call) ----
    cl_pc,             \* "fetching" | "done"
    cl_users,          \* the users argument
    cl_config,         \* the LeaderboardConfig argument (fields used)
    cl_checker,        \* the builder checker: trade ids it classifies as builder
    cl_slots,          \* join_all: per future, "pending" or its output
    cl_order,          \* history: the order in which the fetches completed
    cl_stats,          \* the Vec<UserStats> returned with Ok
    \* ---- calculate_user_stats ----
    s_fills,           \* the fills argument
    s_builder,         \* the builder checker: trade ids it classifies as builder
    s_call,            \* the call just made and its result
    \* ---- UserPnL ----
    fills_by_asset,    \* HashMap<Asset, Vec<UserFill>>
    total_fill_count,  \* cached count
    p_call,            \* the calculation just made and its result
    \* ---- FillEnricher ----
    builder_fills,     \* history: the Vec<BuilderFill> given to new()
    fills_by_key,      \* HashMap<FillKey, BuilderFill>
    total_fills,       \* the count taken by new()
    e_call,            \* the query just made and its result
    \* ---- BuilderDataClient::fetch_fills_range (one call) ----
    bc_pc,             \* "idle" | "loop" | "ok" | "err"
    bc_from,           \* the from argument (a day number)
    bc_to,             \* the to argument
    bc_current,        \* local: the day to fetch next
    bc_all_fills,      \* local Vec<BuilderFill>
    bc_ret,            \* the Vec returned with Ok
    bc_err,            \* the error returned with Err
    bc_fetched,        \* history: the days fetched, in order, with the answers
    \* ---- get_leaderboard (one request) ----
    h_pc,              \* "idle" | "builder_feed" | "users" | "responded"
    h_state,           \* AppState::competition_config (fields used)
    h_query,           \* the LeaderboardQuery
    h_resp,            \* the response status
    h_fetches          \* history: the fetches issued for the request

fetch_vars == <<f_pc, f_start, all_fills, seen_tids, current_end_time, f_ret, first_recv, f_dup,
               f_end, f_err, f_honest, f_ledger>>
coll_vars  == <<is_running, store, c_pc, c_ret, task_pc, last_recv, c_dup, q_call, fill_source,
               stop_returned, w_guard>>
taint_vars == <<a_fills, a_builder, tracker, pf_ret, a_result>>
rank_vars  == <<r_pc, r_stats, r_metric, r_builder_only, r_entries>>
lb_vars    == <<cl_pc, cl_users, cl_config, cl_checker, cl_slots, cl_order, cl_stats>>
stats_vars == <<s_fills, s_builder, s_call>>
pnl_vars   == <<fills_by_asset, total_fill_count, p_call>>
enr_vars   == <<builder_fills, fills_by_key, total_fills, e_call>>
bc_vars    == <<bc_pc, bc_from, bc_to, bc_current, bc_all_fills, bc_ret, bc_err, bc_fetched>>
h_vars     == <<h_pc, h_state, h_query, h_resp, h_fetches>>
ext_vars   == <<enr_vars, bc_vars, h_vars>>
calc_vars  == <<rank_vars, lb_vars, stats_vars, pnl_vars, ext_vars>>
core_vars  == <<rank_vars, lb_vars, stats_vars, pnl_vars>>
feed_vars  == <<fetch_vars, coll_vars, taint_vars>>
vars == <<fetch_vars, coll_vars, taint_vars, calc_vars>>

\* Option<i64>: None and Some(x)
NoneI == [some |-> FALSE, v |-> 0]
Some(x) == [some |-> TRUE, v |-> x]

\* A map (HashMap) is a function whose DOMAIN is its key set.
EmptyMap == [k \in {} |-> 0]

(***************************************************************************)
(* Rust's slice::sort_by / sort_by_key are stable: elements that compare   *)
(* equal keep their relative order.  Less(a, b) is the strict order.       *)
(***************************************************************************)
StableSort(s, Less(_, _)) ==
    LET n == Len(s)
        rank(i) == Cardinality({j \in 1..n :
                       Less(s[j], s[i]) \/ (~Less(s[i], s[j]) /\ j < i)}) + 1
    IN  [p \in 1..n |-> s[CHOOSE i \in 1..n : rank(i) = p]]

Range(s) == {s[i] : i \in 1..Len(s)}

Min(S) == CHOOSE x \in S : \A y \in S : x <= y

\* i64::max
MaxOf(a, b) == IF a >= b THEN a ELSE b

(***************************************************************************)
(*                 PAGINATED FETCHER  (api_client.rs)                      *)
(***************************************************************************)

\* The per-request cap and the total ceiling, scaled down from 2000 and
\* 10000; the ceiling stays a multiple of the per-request cap.
MAX_FILLS_PER_REQUEST == 2
MAX_TOTAL_FILLS == 4

\* Trade ids and times the exchange may send.
NumTids == 5
Tids == 1..NumTids
FTimes == {1, 2}
FFills == [tid : Tids, time : FTimes]

\* Pages the exchange may answer with: any sequence of at most
\* MAX_FILLS_PER_REQUEST fills (repeats inside a page and across pages).
RECURSIVE SeqsUpTo(_, _)
SeqsUpTo(S, n) ==
    IF n = 0 THEN {<<>>}
    ELSE LET shorter == SeqsUpTo(S, n - 1)
         IN  shorter \cup {Append(s, x) : s \in {t \in shorter : Len(t) = n - 1}, x \in S}

Pages == SeqsUpTo(FFills, MAX_FILLS_PER_REQUEST)

StartTimes == {-1, 1}
EndTimes == {NoneI, Some(3)}

\* for fill in response { if seen_tids.insert(fill.tid) { all_fills.push(fill) } }
\* Result: the pair <<all_fills, seen_tids>> after the loop over the page.
RECURSIVE DedupCollect_NoCheck(_, _, _)
DedupCollect_NoCheck(all, seen, page) ==
    IF page = <<>> THEN <<all, seen>>
    ELSE LET fill == Head(page)
         IN  DedupCollect_NoCheck(Append(all, fill), seen \cup {fill.tid}, Tail(page))

RECURSIVE DedupCollect(_, _, _)
DedupCollect(all, seen, page) ==
    IF page = <<>> THEN <<all, seen>>
    ELSE LET fill == Head(page)
         IN  IF fill.tid \notin seen
             THEN DedupCollect(Append(all, fill), seen \cup {fill.tid}, Tail(page))
             ELSE DedupCollect(all, seen, Tail(page))

\* all_fills.sort_by(|a, b| b.time.cmp(&a.time))
SortTimeDesc_Ascending(fills) == StableSort(fills, LAMBDA a, b : a.time < b.time)

SortTimeDesc(fills) == StableSort(fills, LAMBDA a, b : a.time > b.time)

\* let start_time_u64 = start_time.max(0) as u64
StartTimeU64(start_time) == MaxOf(start_time, 0)

\* all_fills.iter().map(|f| f.time).min().unwrap_or(0)
EarliestTime(all) == IF all = <<>> THEN 0 ELSE Min({all[i].time : i \in 1..Len(all)})

\* History: `fills` repeats a tid of `known` or one of its own.
HasRepeat(known, fills) ==
    \E i \in 1..Len(fills) :
        \/ fills[i].tid \in known
        \/ \E j \in 1..(i - 1) : fills[j].tid = fills[i].tid

\* History of the first fill received per tid.
RECURSIVE RecordFirst(_, _)
RecordFirst(first, page) ==
    IF page = <<>> THEN first
    ELSE LET fill == Head(page)
         IN  RecordFirst(IF fill.tid \in DOMAIN first THEN first
                         ELSE [t \in DOMAIN first \cup {fill.tid} |->
                                  IF t = fill.tid THEN fill ELSE first[t]],
                         Tail(page))

\* No error returned.
NoError == [cause |-> "", error |-> ""]

\* user_fills_by_time(user, start_time, end_time, _) is entered, against
\* an exchange holding one of `ledgers`.
FetchStart(ledgers, end_times) ==
    /\ f_pc = "loop"
    /\ f_start \in StartTimes
    /\ all_fills = <<>>
    /\ seen_tids = {}
    /\ f_end \in end_times
    /\ current_end_time = f_end
    /\ f_ret = <<>>
    /\ first_recv = EmptyMap
    /\ f_dup = FALSE
    /\ f_err = NoError
    /\ f_honest = TRUE
    /\ f_ledger \in ledgers

\* The exchange is arbitrary: it is not tied to any ledger.
FetchInit == FetchStart({{}}, EndTimes)

\* end_time: current_end_time.map(|t| t.max(0) as u64) in the request.
RequestEndTime(end_time) == IF end_time.some THEN Some(MaxOf(end_time.v, 0)) ELSE NoneI

\* History: the page holds no fill later than the endTime requested.
HonoursEndTime(response, end_time) ==
    RequestEndTime(end_time).some =>
        \A i \in 1..Len(response) : response[i].time <= RequestEndTime(end_time).v

\* History: a trade id received before comes with the time it had then.
SameTimePerTid(response, all) ==
    \A i \in 1..Len(response) : \A j \in 1..Len(all) :
        response[i].tid = all[j].tid => response[i].time = all[j].time

\* current_end_time = Some(earliest_time as i64 - 1)
NextEndTime_SameTime(earliest_time) == Some(earliest_time)

NextEndTime(earliest_time) == Some(earliest_time - 1)

\* break; sort; Ok(all_fills)
FetchReturn(all, seen) ==
    /\ f_pc' = "ok"
    /\ all_fills' = SortTimeDesc(all)
    /\ f_ret' = SortTimeDesc(all)
    /\ seen_tids' = seen
    /\ UNCHANGED current_end_time

\* One iteration of the loop whose request is answered with `response`.
FetchPage(response) ==
    /\ f_pc = "loop"
    /\ first_recv' = RecordFirst(first_recv, response)
    /\ UNCHANGED <<coll_vars, taint_vars, calc_vars>>
    /\ f_dup' = (f_dup \/ HasRepeat(DOMAIN first_recv, response))
    /\ f_honest' = (/\ f_honest
                    /\ HonoursEndTime(response, current_end_time)
                    /\ SameTimePerTid(response, all_fills))
    /\ UNCHANGED <<f_start, f_end, f_err, f_ledger>>
    /\ IF response = <<>>
       THEN FetchReturn(all_fills, seen_tids)
       ELSE LET collected == DedupCollect(all_fills, seen_tids, response)
                all == collected[1]
                seen == collected[2]
                earliest_time == EarliestTime(all)
            IN  IF Len(response) < MAX_FILLS_PER_REQUEST
                THEN FetchReturn(all, seen)
                ELSE IF Len(all) >= MAX_TOTAL_FILLS
                THEN FetchReturn(all, seen)
                ELSE IF earliest_time <= StartTimeU64(f_start)
                THEN FetchReturn(all, seen)
                ELSE /\ all_fills' = all
                     /\ seen_tids' = seen
                     /\ current_end_time' = NextEndTime(earliest_time)
                     /\ UNCHANGED <<f_pc, f_ret>>

\* What makes a request fail: send() errs, error_for_status() finds a
\* non-2xx status, or json() cannot decode the body.
FailureCauses == {"send", "status", "body"}

\* A request fails: `?` returns IngestionError::Network (From<reqwest::Error>
\* and the map_err both build it) and drops the local buffer.
FetchFail_ReturnsPartial(cause) ==
    /\ f_pc = "loop"
    /\ f_pc' = "err"
    /\ f_err' = [cause |-> cause, error |-> "Network"]
    /\ f_ret' = all_fills
    /\ UNCHANGED <<f_start, all_fills, seen_tids, current_end_time, first_recv, f_dup,
                   f_end, f_honest, f_ledger>>
    /\ UNCHANGED <<coll_vars, taint_vars, calc_vars>>

FetchFail(cause) ==
    /\ f_pc = "loop"
    /\ f_pc' = "err"
    /\ f_err' = [cause |-> cause, error |-> "Network"]
    /\ UNCHANGED <<f_start, all_fills, seen_tids, current_end_time, f_ret, first_recv, f_dup,
                   f_end, f_honest, f_ledger>>
    /\ UNCHANGED <<coll_vars, taint_vars, calc_vars>>

FetchNext ==
    \/ \E response \in Pages : FetchPage(response)
    \/ \E cause \in FailureCauses : FetchFail(cause)

\* The fills of the ledger the request (start_time, end_time) matches.
Matching(ledger, start_time, end_time) ==
    {fill \in ledger :
        /\ fill.time >= start_time
        /\ end_time.some => fill.time <= end_time.v}

\* The answers of an exchange that sends the most recent matching fills,
\* at most MAX_FILLS_PER_REQUEST of them, most recent first (fills of
\* equal time in any order).
LedgerAnswers(ledger, start_time, end_time) ==
    LET matching == Matching(ledger, start_time, end_time)
        n == IF Cardinality(matching) < MAX_FILLS_PER_REQUEST
             THEN Cardinality(matching) ELSE MAX_FILLS_PER_REQUEST
    IN  {page \in [1..n -> matching] :
            /\ \A i, j \in 1..n : i < j => page[i] # page[j] /\ page[i].time >= page[j].time
            /\ \A fill \in matching \ Range(page) :
                  \A i \in 1..n : page[i].time >= fill.time}

\* One iteration of the loop answered by the exchange from its ledger.
LedgerPage ==
    \E response \in LedgerAnswers(f_ledger, StartTimeU64(f_start),
                                   RequestEndTime(current_end_time)) :
        FetchPage(response)

LedgerNext ==
    \/ LedgerPage
    \/ \E cause \in FailureCauses : FetchFail(cause)

(***************************************************************************)
(*        STREAMING COLLECTOR  (ws_collector.rs)  AND  INDEXER READS       *)
(***************************************************************************)

\* Trade ids, times and coins of the fills pushed over the WebSocket.
CTids == {1, 2}
CTimes == {1, 2}
Coins == {"BTC", "eth"}
CFills == [tid : CTids, time : CTimes, coin : Coins]

\* Largest number of fills in one UserFills message.
MaxMsgFills == 2

\* Incoming frames: UserFills { fills }, the non-fill frames
\* (SubscriptionResponse, Ping, Pong, any other), or None (channel closed).
NonFillFrames == {"SubscriptionResponse", "Ping", "Pong", "Other"}
Messages ==
    {[type |-> "UserFills", fills |-> fs] : fs \in SeqsUpTo(CFills, MaxMsgFills)}
    \cup {[type |-> frame, fills |-> <<>>] : frame \in NonFillFrames \cup {"Closed"}}

\* Symbols a reader may ask for, and ASCII upper-casing on them.
Symbols == {"BTC", "btc", "ETH", "eth", "SOL"}
ToUpper(sym) ==
    CASE sym = "btc" -> "BTC"
      [] sym = "eth" -> "ETH"
      [] sym = "newcoin" -> "NEWCOIN"
      [] OTHER -> sym

\* str::eq_ignore_ascii_case
EqIgnoreAsciiCase(a, b) == ToUpper(a) = ToUpper(b)

\* The user strings given to start(): one that parses as an address and
\* one that does not.
Users == {"0xabc", "bogus"}
ParsesAsAddress(user) == user \in {"0xabc", "0xdef"}

\* The user every successful start() of the model subscribes to, and the
\* users get_user_fills is asked for.
SubscribedUser == "0xabc"
ReadUsers == {SubscribedUser, "0xdef"}

\* store.insert(fill.tid, fill): a later fill replaces an earlier one.
StoreInsert_KeepFirst(st, fill) ==
    [t \in DOMAIN st \cup {fill.tid} |-> IF t \in DOMAIN st THEN st[t] ELSE fill]

StoreInsert(st, fill) ==
    [t \in DOMAIN st \cup {fill.tid} |-> IF t = fill.tid THEN fill ELSE st[t]]

\* for fill in fills { store.insert(fill.tid, fill); }
RECURSIVE StoreInsertAll(_, _)
StoreInsertAll(st, fills) ==
    IF fills = <<>> THEN st
    ELSE StoreInsertAll(StoreInsert(st, Head(fills)), Tail(fills))

\* History: the last fill received per tid since the last clear().
RecordLast(last, fills) ==
    LET tids == {fills[i].tid : i \in 1..Len(fills)}
        lastIndex(t) == CHOOSE i \in 1..Len(fills) :
                            /\ fills[i].tid = t
                            /\ \A j \in (i + 1)..Len(fills) : fills[j].tid # t
    IN  [t \in DOMAIN last \cup tids |->
            IF t \in tids THEN fills[lastIndex(t)] ELSE last[t]]

\* self.fills.read().await.len()
FillCount(st) == Cardinality(DOMAIN st)

\* q_call when no read has been made since the last step of the collector.
NoCall ==
    [op |-> "none", from |-> NoneI, to |-> NoneI, asset |-> "", endpoint |-> "",
     status |-> "Ok", result |-> <<>>, count |-> 0, user |-> "", frame |-> ""]

\* The callers of start()/stop() on the collector and its clones; the
\* task spawned by caller c's start() is task c.
Callers == DOMAIN c_pc

CollInit(callers) ==
    /\ is_running = FALSE
    /\ store = EmptyMap
    /\ c_pc = [c \in callers |-> "idle"]
    /\ c_ret = [c \in callers |-> "None"]
    /\ task_pc = [c \in callers |-> "none"]
    /\ last_recv = EmptyMap
    /\ c_dup = FALSE
    /\ stop_returned = FALSE
    /\ w_guard = <<>>

\* start(): the read-locked check of is_running and the address parse.
\* q_call records the user given and what the call has returned so far.
StartCheck_MarksBeforeParse(c, user) ==
    /\ c_pc[c] = "idle"
    /\ IF is_running
       THEN /\ c_ret' = [c_ret EXCEPT ![c] = "AlreadyRunning"]
            /\ UNCHANGED <<c_pc, is_running>>
       ELSE IF ~ParsesAsAddress(user)
       THEN /\ c_ret' = [c_ret EXCEPT ![c] = "InvalidInput"]
            /\ is_running' = TRUE
            /\ UNCHANGED c_pc
       ELSE /\ c_ret' = [c_ret EXCEPT ![c] = "None"]
            /\ c_pc' = [c_pc EXCEPT ![c] = "mark"]
            /\ UNCHANGED is_running
    /\ UNCHANGED <<store, task_pc, last_recv, c_dup, fill_source>>
    /\ stop_returned' = FALSE
    /\ UNCHANGED w_guard
    /\ q_call' = [NoCall EXCEPT !.op = "start", !.user = user, !.status = c_ret'[c]]
    /\ UNCHANGED <<fetch_vars, taint_vars, calc_vars>>

StartCheck(c, user) ==
    /\ c_pc[c] = "idle"
    /\ IF is_running
       THEN /\ c_ret' = [c_ret EXCEPT ![c] = "AlreadyRunning"]
            /\ UNCHANGED c_pc
       ELSE IF ~ParsesAsAddress(user)
       THEN /\ c_ret' = [c_ret EXCEPT ![c] = "InvalidInput"]
            /\ UNCHANGED c_pc
       ELSE /\ c_ret' = [c_ret EXCEPT ![c] = "None"]
            /\ c_pc' = [c_pc EXCEPT ![c] = "mark"]
    /\ UNCHANGED <<is_running, store, task_pc, last_recv, c_dup, fill_source>>
    /\ stop_returned' = FALSE
    /\ UNCHANGED w_guard
    /\ q_call' = [NoCall EXCEPT !.op = "start", !.user = user, !.status = c_ret'[c]]
    /\ UNCHANGED <<fetch_vars, taint_vars, calc_vars>>

\* start(): the write-locked *is_running = true.
StartMark(c) ==
    /\ c_pc[c] = "mark"
    /\ is_running' = TRUE
    /\ c_pc' = [c_pc EXCEPT ![c] = "spawn"]
    /\ UNCHANGED <<store, c_ret, task_pc, last_recv, c_dup, fill_source>>
    /\ stop_returned' = FALSE
    /\ UNCHANGED w_guard
    /\ q_call' = NoCall
    /\ UNCHANGED <<fetch_vars, taint_vars, calc_vars>>

\* start(): connect, subscribe, tokio::spawn, Ok(CollectorHandle).
StartSpawn(c) ==
    /\ c_pc[c] = "spawn"
    /\ task_pc' = [task_pc EXCEPT ![c] = "check"]
    /\ c_pc' = [c_pc EXCEPT ![c] = "running"]
    /\ c_ret' = [c_ret EXCEPT ![c] = "Ok"]
    /\ UNCHANGED <<is_running, store, last_recv, c_dup, fill_source>>
    /\ stop_returned' = FALSE
    /\ UNCHANGED w_guard
    /\ q_call' = NoCall
    /\ UNCHANGED <<fetch_vars, taint_vars, calc_vars>>

\* Task body, top of the loop: read is_running; break and close when false.
TaskCheck(t) ==
    /\ task_pc[t] = "check"
    /\ task_pc' = [task_pc EXCEPT ![t] = IF is_running THEN "wait" ELSE "done"]
    /\ UNCHANGED <<is_running, store, c_pc, c_ret, last_recv, c_dup, fill_source, stop_returned, w_guard>>
    /\ q_call' = NoCall
    /\ UNCHANGED <<fetch_vars, taint_vars, calc_vars>>

\* Task body: conn.next().await yields msg; the match arm runs (None
\* sleeps one second) and the loop goes back to the check.  q_call records
\* the kind of frame handled.
TaskRecv_ClosedEndsTask(t, msg) ==
    /\ task_pc[t] = "wait"
    /\ task_pc' = [task_pc EXCEPT ![t] = IF msg.type = "Closed" THEN "done" ELSE "check"]
    /\ IF msg.type = "UserFills" /\ Len(msg.fills) > 0
       THEN /\ store' = StoreInsertAll(store, msg.fills)
            /\ last_recv' = RecordLast(last_recv, msg.fills)
            /\ c_dup' = (c_dup \/ HasRepeat(DOMAIN last_recv, msg.fills))
       ELSE UNCHANGED <<store, last_recv, c_dup>>
    /\ is_running' = (is_running /\ msg.type # "Closed")
    /\ UNCHANGED <<c_pc, c_ret, fill_source, stop_returned, w_guard>>
    /\ q_call' = [NoCall EXCEPT !.op = "recv", !.frame = msg.type]
    /\ UNCHANGED <<fetch_vars, taint_vars, calc_vars>>

TaskRecv(t, msg) ==
    /\ task_pc[t] = "wait"
    /\ task_pc' = [task_pc EXCEPT ![t] = "check"]
    /\ IF msg.type = "UserFills" /\ Len(msg.fills) > 0
       THEN /\ store' = StoreInsertAll(store, msg.fills)
            /\ last_recv' = RecordLast(last_recv, msg.fills)
            /\ c_dup' = (c_dup \/ HasRepeat(DOMAIN last_recv, msg.fills))
       ELSE UNCHANGED <<store, last_recv, c_dup>>
    /\ UNCHANGED <<is_running, c_pc, c_ret, fill_source, stop_returned, w_guard>>
    /\ q_call' = [NoCall EXCEPT !.op = "recv", !.frame = msg.type]
    /\ UNCHANGED <<fetch_vars, taint_vars, calc_vars>>

\* CollectorHandle::stop(): the write-locked *is_running = false.
StopSignal(c) ==
    /\ c_pc[c] = "running"
    /\ is_running' = FALSE
    /\ c_pc' = [c_pc EXCEPT ![c] = "join"]
    /\ UNCHANGED <<store, c_ret, task_pc, last_recv, c_dup, fill_source, stop_returned, w_guard>>
    /\ q_call' = NoCall
    /\ UNCHANGED <<fetch_vars, taint_vars, calc_vars>>

\* CollectorHandle::stop(): self.task_handle.await completes.
StopJoin(c) ==
    /\ c_pc[c] = "join"
    /\ task_pc[c] = "done"
    /\ c_pc' = [c_pc EXCEPT ![c] = "idle"]
    /\ UNCHANGED <<is_running, store, c_ret, task_pc, last_recv, c_dup, fill_source>>
    /\ stop_returned' = TRUE
    /\ UNCHANGED w_guard
    /\ q_call' = NoCall
    /\ UNCHANGED <<fetch_vars, taint_vars, calc_vars>>

\* FillCollector::clear(): self.fills.write().await.clear(); count records
\* how many fills it removed.
Clear_StopsCollector ==
    /\ store' = EmptyMap
    /\ last_recv' = EmptyMap
    /\ c_dup' = FALSE
    /\ is_running' = FALSE
    /\ UNCHANGED <<c_pc, c_ret, task_pc, fill_source, stop_returned, w_guard>>
    /\ q_call' = [NoCall EXCEPT !.op = "clear", !.count = FillCount(store)]
    /\ UNCHANGED <<fetch_vars, taint_vars, calc_vars>>

Clear ==
    /\ store' = EmptyMap
    /\ last_recv' = EmptyMap
    /\ c_dup' = FALSE
    /\ UNCHANGED <<is_running, c_pc, c_ret, task_pc, fill_source, stop_returned, w_guard>>
    /\ q_call' = [NoCall EXCEPT !.op = "clear", !.count = FillCount(store)]
    /\ UNCHANGED <<fetch_vars, taint_vars, calc_vars>>

\* Indexer::stop_collecting() while collector_handle holds None (no start
\* has stored a handle, or a stop has taken it): take() yields None and
\* the call returns.  The lock on collector_handle is held by a stop in
\* progress, not by a start.
StopCollectingNoHandle_StopsAnyway(c) ==
    /\ c_pc[c] \in {"idle", "mark", "spawn"}
    /\ \A d \in Callers : c_pc[d] # "join"
    /\ q_call' = [NoCall EXCEPT !.op = "stop_collecting", !.status = "NotRunning"]
    /\ UNCHANGED <<is_running, store, c_pc, c_ret, task_pc, last_recv, c_dup, fill_source, stop_returned, w_guard>>
    /\ UNCHANGED <<fetch_vars, taint_vars, calc_vars>>

StopCollectingNoHandle(c) ==
    /\ c_pc[c] \in {"idle", "mark", "spawn"}
    /\ \A d \in Callers : c_pc[d] # "join"
    /\ q_call' = [NoCall EXCEPT !.op = "stop_collecting", !.status = "Ok"]
    /\ UNCHANGED <<is_running, store, c_pc, c_ret, task_pc, last_recv, c_dup, fill_source, stop_returned, w_guard>>
    /\ UNCHANGED <<fetch_vars, taint_vars, calc_vars>>

CollectorStep ==
    \/ \E c \in Callers, user \in Users : StartCheck(c, user)
    \/ \E c \in Callers : StartMark(c)
    \/ \E c \in Callers : StartSpawn(c)
    \/ \E t \in Callers : TaskCheck(t)
    \/ \E t \in Callers, msg \in Messages : TaskRecv(t, msg)
    \/ \E c \in Callers : StopSignal(c)
    \/ \E c \in Callers : StopJoin(c)
    \/ \E c \in Callers : StopCollectingNoHandle(c)
    \/ Clear

(***************************************************************************)
(*   READS: FillCollector::get_fills*, Indexer::get_user_fills             *)
(***************************************************************************)

\* HashMap::values() iterates in an arbitrary order: every ordering of the
\* key set is possible.
KeyOrders(st) ==
    LET K == DOMAIN st
    IN  {o \in [1..Cardinality(K) -> K] : Range(o) = K}

Values(st, order) == [i \in 1..Len(order) |-> st[order[i]]]

\* fills.sort_by_key(|f| f.time)
SortTimeAsc(fills) == StableSort(fills, LAMBDA a, b : a.time < b.time)

\* .filter(|f| f.time >= from_ms && f.time <= to_ms)
InRange_Exclusive(f, from_ms, to_ms) == f.time >= from_ms /\ f.time < to_ms

InRange(f, from_ms, to_ms) == f.time >= from_ms /\ f.time <= to_ms

\* FillCollector::get_fills
GetFillsOf(st, order) == SortTimeAsc(Values(st, order))

\* FillCollector::get_fills_in_range
GetFillsInRangeOf(st, order, from_ms, to_ms) ==
    SortTimeAsc(SelectSeq(Values(st, order), LAMBDA f : InRange(f, from_ms, to_ms)))

\* FillCollector::get_fills_for_asset
GetFillsForAssetOf(st, order, asset) ==
    SortTimeAsc(SelectSeq(Values(st, order), LAMBDA f : EqIgnoreAsciiCase(f.coin, asset)))

\* `x as u64` on an i64: reduction modulo 2^64 (2^30 stands for 2^64; all
\* times of the model are far below it).
U64_MODULUS == 1073741824
AsU64(x) == x % U64_MODULUS

\* Asset::from_symbol: known symbols are matched on the upper-cased
\* string, anything else becomes Other(symbol) with the case preserved.
AssetFromSymbol_CaseSensitive(symbol) ==
    CASE symbol = "BTC" -> [variant |-> "Btc", name |-> ""]
      [] symbol = "ETH" -> [variant |-> "Eth", name |-> ""]
      [] symbol = "SOL" -> [variant |-> "Sol", name |-> ""]
      [] OTHER -> [variant |-> "Other", name |-> symbol]

AssetFromSymbol(symbol) ==
    CASE ToUpper(symbol) = "BTC" -> [variant |-> "Btc", name |-> ""]
      [] ToUpper(symbol) = "ETH" -> [variant |-> "Eth", name |-> ""]
      [] ToUpper(symbol) = "SOL" -> [variant |-> "Sol", name |-> ""]
      [] OTHER -> [variant |-> "Other", name |-> symbol]

\* converter::convert_fill (the fields the model carries)
ConvertFill(fill) ==
    [asset |-> AssetFromSymbol(fill.coin), timestamp_ms |-> fill.time, trade_id |-> fill.tid]

\* converter::convert_fills
ConvertFills(fills) == [i \in 1..Len(fills) |-> ConvertFill(fills[i])]

\* Time bounds a reader may pass.
RangeBounds == {1, 2}
OptBounds == {NoneI, Some(-1), Some(1), Some(2)}

\* Largest number of fills in a userFills answer of the model.
MaxApiFills == 1
ApiResponses == SeqsUpTo(CFills, MaxApiFills)

\* The record of a read: the operation, its arguments and what it returned.
Call(op, from, to, asset, endpoint, status, result) ==
    [op |-> op, from |-> from, to |-> to, asset |-> asset, endpoint |-> endpoint,
     status |-> status, result |-> result, count |-> Len(result), user |-> "", frame |-> ""]

ReadFrame ==
    /\ UNCHANGED <<is_running, store, c_pc, c_ret, task_pc, last_recv, c_dup, fill_source, stop_returned, w_guard>>
    /\ UNCHANGED <<fetch_vars, taint_vars, calc_vars>>

GetFills ==
    /\ \E order \in KeyOrders(store) :
          q_call' = Call("get_fills", NoneI, NoneI, "", "", "Ok", GetFillsOf(store, order))
    /\ ReadFrame

GetFillCount ==
    /\ q_call' = [NoCall EXCEPT !.op = "fill_count", !.count = FillCount(store)]
    /\ ReadFrame

GetFillsInRange(from_ms, to_ms) ==
    /\ \E order \in KeyOrders(store) :
          q_call' = Call("get_fills_in_range", Some(from_ms), Some(to_ms), "", "", "Ok",
                         GetFillsInRangeOf(store, order, from_ms, to_ms))
    /\ ReadFrame

GetFillsForAsset(asset) ==
    /\ \E order \in KeyOrders(store) :
          q_call' = Call("get_fills_for_asset", NoneI, NoneI, asset, "", "Ok",
                         GetFillsForAssetOf(store, order, asset))
    /\ ReadFrame

\* HyperliquidSource::get_user_fills: parse the address, one userFills
\* call through hypersdk, then the client-side time filter.
SourceGetUserFills(user, from_ms, to_ms, response, fails) ==
    IF ~ParsesAsAddress(user)
    THEN Call("get_user_fills", from_ms, to_ms, "", "", "InvalidAddress", <<>>)
    ELSE IF fails
    THEN Call("get_user_fills", from_ms, to_ms, "", "userFills", "Network", <<>>)
    ELSE Call("get_user_fills", from_ms, to_ms, "", "userFills", "Ok",
              SelectSeq(response, LAMBDA fill :
                  /\ (from_ms.some => fill.time >= from_ms.v)
                  /\ (to_ms.some => fill.time <= to_ms.v)))

\* The WebSocket arm of Indexer::get_user_fills: the range read only when
\* both bounds are given, get_fills() otherwise.
CollectorFillsFor(st, order, from_ms, to_ms) ==
    IF from_ms.some /\ to_ms.some
    THEN GetFillsInRangeOf(st, order, AsU64(from_ms.v), AsU64(to_ms.v))
    ELSE GetFillsOf(st, order)

\* Indexer::get_user_fills
IndexerGetUserFills(user, from_ms, to_ms) ==
    /\ IF fill_source = "Api"
       THEN \E response \in ApiResponses, fails \in BOOLEAN :
              LET raw == SourceGetUserFills(user, from_ms, to_ms, response, fails)
              IN  q_call' = [raw EXCEPT !.result = ConvertFills(raw.result), !.user = user]
       ELSE \E order \in KeyOrders(store) :
              q_call' = [Call("get_user_fills", from_ms, to_ms, "", "collector", "Ok",
                              ConvertFills(CollectorFillsFor(store, order, from_ms, to_ms)))
                         EXCEPT !.user = user]
    /\ ReadFrame

\* The task body step by step under the RwLock of the store: the UserFills
\* arm takes fills_store.write() when no other guard is out, inserts the
\* fills one by one and drops the guard at the end of the block.
TaskLock(t, msg) ==
    /\ task_pc[t] = "wait"
    /\ msg.type = "UserFills" /\ Len(msg.fills) > 0
    /\ w_guard = <<>>
    /\ w_guard' = msg.fills
    /\ task_pc' = [task_pc EXCEPT ![t] = "insert"]
    /\ last_recv' = RecordLast(last_recv, msg.fills)
    /\ c_dup' = (c_dup \/ HasRepeat(DOMAIN last_recv, msg.fills))
    /\ q_call' = [NoCall EXCEPT !.op = "recv", !.frame = msg.type]
    /\ UNCHANGED <<is_running, store, c_pc, c_ret, fill_source, stop_returned>>
    /\ UNCHANGED <<fetch_vars, taint_vars, calc_vars>>

\* store.insert(fill.tid, fill) for the next fill of the message.
TaskInsert(t) ==
    /\ task_pc[t] = "insert"
    /\ store' = StoreInsert(store, Head(w_guard))
    /\ w_guard' = Tail(w_guard)
    /\ task_pc' = [task_pc EXCEPT ![t] = IF Tail(w_guard) = <<>> THEN "check" ELSE "insert"]
    /\ q_call' = NoCall
    /\ UNCHANGED <<is_running, c_pc, c_ret, last_recv, c_dup, fill_source, stop_returned>>
    /\ UNCHANGED <<fetch_vars, taint_vars, calc_vars>>

\* self.fills.read().await: granted only while no write guard is out.
ReadLockGranted_Always == TRUE

ReadLockGranted == w_guard = <<>>

ReadStep ==
    \/ GetFills
    \/ GetFillCount
    \/ \E from_ms \in RangeBounds, to_ms \in RangeBounds : GetFillsInRange(from_ms, to_ms)
    \/ \E asset \in Symbols : GetFillsForAsset(asset)
    \/ \E user \in ReadUsers, from_ms \in OptBounds, to_ms \in OptBounds :
          IndexerGetUserFills(user, from_ms, to_ms)

(***************************************************************************)
(*                   TAINT TRACKER  (taint.rs)                             *)
(***************************************************************************)

\* Largest number of fills of one user.
MaxFills == 2

TAssets == {AssetFromSymbol("BTC"), AssetFromSymbol("ETH")}
TSides == {"Buy", "Sell"}
TSizes == {0, 1}
TTimes == {1, 2}
TradeIds == 1..(MaxFills + 1)
UserFills == [asset : TAssets, side : TSides, size : TSizes,
              timestamp_ms : TTimes, trade_id : TradeIds]

\* PositionLifecycleTracker::new: empty maps, None, zero counts.
NewTracker ==
    [positions |-> EmptyMap, tainted_assets |-> EmptyMap, first_taint_ms |-> NoneI,
     total_fills |-> 0, builder_fills |-> 0, tainted_fills |-> 0]

\* map.insert(key, value)
MapInsert(m, key, value) ==
    [k \in DOMAIN m \cup {key} |-> IF k = key THEN value ELSE m[k]]

\* One net position for the whole account instead of one per asset.
RECURSIVE SumPositions(_, _)
SumPositions(positions, assets) ==
    IF assets = {} THEN 0
    ELSE LET a == CHOOSE x \in assets : TRUE
         IN  positions[a] + SumPositions(positions, assets \ {a})

GetPosition_Net(t, asset) == SumPositions(t.positions, DOMAIN t.positions)

\* *self.positions.get(asset).unwrap_or(&Decimal::ZERO)
GetPosition(t, asset) == IF asset \in DOMAIN t.positions THEN t.positions[asset] ELSE 0

\* match fill.side { Side::Buy => fill.size, Side::Sell => -fill.size }
SignedSize(fill) == IF fill.side = "Buy" THEN fill.size ELSE 0 - fill.size

\* was_in_position || is_in_position
InPosition_OnlyBefore(current_position, new_position) == current_position # 0

InPosition_OnlyAfter(current_position, new_position) == new_position # 0

InPosition(current_position, new_position) ==
    current_position # 0 \/ new_position # 0

\* process_fill without the early return of the builder branch: a builder
\* fill is counted and then goes through the position test as well.
ProcessFill_NoEarlyReturn(t, fill, is_builder_fill) ==
    LET current_position == GetPosition(t, fill.asset)
        new_position == current_position + SignedSize(fill)
        counted == [t EXCEPT !.total_fills = @ + 1,
                             !.positions = MapInsert(@, fill.asset, new_position),
                             !.builder_fills = IF is_builder_fill THEN @ + 1 ELSE @]
    IN  IF InPosition(current_position, new_position)
        THEN [tracker |-> [counted EXCEPT
                  !.tainted_fills = @ + 1,
                  !.tainted_assets = MapInsert(@, fill.asset, TRUE),
                  !.first_taint_ms = IF @.some THEN @ ELSE Some(fill.timestamp_ms)],
              ret |-> TRUE]
        ELSE [tracker |-> counted, ret |-> FALSE]

\* PositionLifecycleTracker::process_fill: the tracker afterwards and the
\* value returned.
ProcessFill(t, fill, is_builder_fill) ==
    LET current_position == GetPosition(t, fill.asset)
        new_position == current_position + SignedSize(fill)
        counted == [t EXCEPT !.total_fills = @ + 1,
                             !.positions = MapInsert(@, fill.asset, new_position)]
    IN  IF is_builder_fill
        THEN [tracker |-> [counted EXCEPT !.builder_fills = @ + 1], ret |-> FALSE]
        ELSE IF InPosition(current_position, new_position)
        THEN [tracker |-> [counted EXCEPT
                  !.tainted_fills = @ + 1,
                  !.tainted_assets = MapInsert(@, fill.asset, TRUE),
                  !.first_taint_ms = IF @.some THEN @ ELSE Some(fill.timestamp_ms)],
              ret |-> TRUE]
        ELSE [tracker |-> counted, ret |-> FALSE]

\* PositionLifecycleTracker::is_tainted
IsTainted_WhileOpen(t) ==
    \E asset \in DOMAIN t.tainted_assets : GetPosition(t, asset) # 0

IsTainted(t) == DOMAIN t.tainted_assets # {}

\* PositionLifecycleTracker::result
TrackerResult(t) ==
    [called |-> TRUE,
     tainted |-> IsTainted(t),
     tainted_assets |-> DOMAIN t.tainted_assets,
     total_fills |-> t.total_fills,
     builder_fills |-> t.builder_fills,
     tainted_fills |-> t.tainted_fills,
     first_taint_timestamp_ms |-> t.first_taint_ms]

NoResult ==
    [called |-> FALSE, tainted |-> FALSE, tainted_assets |-> {}, total_fills |-> 0,
     builder_fills |-> 0, tainted_fills |-> 0, first_taint_timestamp_ms |-> NoneI]

\* sorted_fills.sort_by_key(|f| f.timestamp_ms)
SortByTimestamp(fills) == StableSort(fills, LAMBDA a, b : a.timestamp_ms < b.timestamp_ms)

\* for fill in sorted_fills { tracker.process_fill(fill, is_builder_fill(fill)); }
RECURSIVE ProcessAll(_, _, _)
ProcessAll(t, fills, builder_ids) ==
    IF fills = <<>> THEN t
    ELSE ProcessAll(ProcessFill(t, Head(fills), Head(fills).trade_id \in builder_ids).tracker,
                    Tail(fills), builder_ids)

\* analyze_user_taint, with the checker of analyze_user_taint_with_ids
AnalyzeUserTaint(fills, builder_ids) ==
    TrackerResult(ProcessAll(NewTracker, SortByTimestamp(fills), builder_ids))

TaintInit ==
    /\ a_fills = <<>>
    /\ a_builder = {}
    /\ tracker = NewTracker
    /\ pf_ret = FALSE
    /\ a_result = NoResult

\* A new fill of the user arrives (its trade id is fresh) and is given to
\* tracker.process_fill together with the checker's verdict.
TrackerProcessFill(fill, is_builder_fill) ==
    /\ Len(a_fills) < MaxFills
    /\ fill.trade_id = Len(a_fills) + 1
    /\ LET r == ProcessFill(tracker, fill, is_builder_fill)
       IN  /\ tracker' = r.tracker
           /\ pf_ret' = r.ret
    /\ a_fills' = Append(a_fills, fill)
    /\ a_builder' = IF is_builder_fill THEN a_builder \cup {fill.trade_id} ELSE a_builder
    /\ a_result' = NoResult
    /\ UNCHANGED <<fetch_vars, coll_vars, calc_vars>>

\* analyze_user_taint is called on the fills so far.
Analyze ==
    /\ a_result' = AnalyzeUserTaint(a_fills, a_builder)
    /\ UNCHANGED <<a_fills, a_builder, tracker, pf_ret>>
    /\ UNCHANGED <<fetch_vars, coll_vars, calc_vars>>

TaintNext ==
    \/ \E fill \in UserFills, is_builder_fill \in BOOLEAN : TrackerProcessFill(fill, is_builder_fill)
    \/ Analyze

(***************************************************************************)
(*                  LEADERBOARD  (leaderboard.rs)                          *)
(***************************************************************************)

\* Decimal amounts are whole numbers in the model.

\* Largest number of users in one ranking.
MaxRanked == 3

Metrics == {"Volume", "Pnl", "ReturnPct"}

\* TaintAnalysisResult::default()
DefaultTaintResult == TrackerResult(NewTracker)

\* A taint result with one tainted fill.
SomeTaintedResult ==
    [DefaultTaintResult EXCEPT !.tainted = TRUE,
                               !.tainted_assets = {AssetFromSymbol("BTC")},
                               !.total_fills = 2, !.tainted_fills = 1,
                               !.first_taint_timestamp_ms = Some(1)]

\* The user of the n-th stats entry.
UserName(n) ==
    CASE n = 1 -> "0xa" [] n = 2 -> "0xb" [] n = 3 -> "0xc" [] OTHER -> "0xd"

\* The UserStats the ranking may be given for the n-th user.
RankedCounts ==
    {[trade_count |-> 0, builder_fill_count |-> 0, taint_result |-> DefaultTaintResult],
     [trade_count |-> 2, builder_fill_count |-> 1, taint_result |-> SomeTaintedResult]}

\* max_start_capital.map(|capital| if capital > 0 { pnl / capital * 100 } else { 0 })
ReturnPct(realized_pnl, max_start_capital) ==
    IF ~max_start_capital.some THEN NoneI
    ELSE IF max_start_capital.v > 0
         THEN Some((realized_pnl * 100) \div max_start_capital.v)
         ELSE Some(0)

\* return_pct is absent, or the return on a start capital of 2.
UserStatsOf(n) ==
    {[user |-> UserName(n), volume |-> v, realized_pnl |-> p,
      return_pct |-> ReturnPct(p, capital),
      trade_count |-> c.trade_count, builder_fill_count |-> c.builder_fill_count,
      taint_result |-> c.taint_result] :
        v \in {0, 1}, p \in {-1, 1}, capital \in {NoneI, Some(2)}, c \in RankedCounts}

\* UserStats::get_metric_value
GetMetricValue(stats, metric) ==
    CASE metric = "Volume" -> stats.volume
      [] metric = "Pnl" -> stats.realized_pnl
      [] metric = "ReturnPct" -> IF stats.return_pct.some THEN stats.return_pct.v ELSE 0

\* The comparator of sorted.sort_by: a goes before b when
\* b_val.partial_cmp(&a_val) is Less.
MetricBefore_Ascending(a, b, metric) == GetMetricValue(a, metric) < GetMetricValue(b, metric)

MetricBefore(a, b, metric) == GetMetricValue(b, metric) < GetMetricValue(a, metric)

Reverse(s) == [i \in 1..Len(s) |-> s[Len(s) + 1 - i]]

\* sorted.sort_by(..): slice::sort_by is stable.
SortByMetric_TiesReversed(stats, metric) ==
    StableSort(Reverse(stats), LAMBDA a, b : MetricBefore(a, b, metric))

SortByMetric(stats, metric) ==
    StableSort(stats, LAMBDA a, b : MetricBefore(a, b, metric))

\* let mut sorted = stats;  (the _builder_only argument is not used)
RankInput_UntaintedOnly(stats, builder_only) ==
    IF builder_only THEN SelectSeq(stats, LAMBDA st : ~st.taint_result.tainted) ELSE stats

RankInput(stats, builder_only) == stats

\* The LeaderboardEntry built from the stats at index idx (from 0).
LeaderboardEntry(idx, stats, metric) ==
    [rank |-> idx + 1,
     user |-> stats.user,
     metric_value |-> GetMetricValue(stats, metric),
     volume |-> stats.volume,
     realized_pnl |-> stats.realized_pnl,
     return_pct |-> stats.return_pct,
     trade_count |-> stats.trade_count,
     builder_fill_count |-> stats.builder_fill_count,
     tainted |-> stats.taint_result.tainted]

\* rank_leaderboard
RankLeaderboard(stats, metric, builder_only) ==
    LET sorted == SortByMetric(RankInput(stats, builder_only), metric)
    IN  [i \in 1..Len(sorted) |-> LeaderboardEntry(i - 1, sorted[i], metric)]

RankInit ==
    /\ r_pc = "input"
    /\ r_stats = <<>>
    /\ r_metric = "Volume"
    /\ r_builder_only = FALSE
    /\ r_entries = <<>>

\* The caller collects the stats of one more user.
RankPush(stats) ==
    /\ r_pc = "input"
    /\ Len(r_stats) < MaxRanked
    /\ stats \in UserStatsOf(Len(r_stats) + 1)
    /\ r_stats' = Append(r_stats, stats)
    /\ UNCHANGED <<r_pc, r_metric, r_builder_only, r_entries>>
    /\ UNCHANGED <<feed_vars, ext_vars, lb_vars, stats_vars, pnl_vars>>

\* rank_leaderboard(stats, metric, builder_only) is called and returns.
RankCall(metric, builder_only) ==
    /\ r_pc = "input"
    /\ r_pc' = "ranked"
    /\ r_metric' = metric
    /\ r_builder_only' = builder_only
    /\ r_entries' = RankLeaderboard(r_stats, metric, builder_only)
    /\ UNCHANGED r_stats
    /\ UNCHANGED <<feed_vars, ext_vars, lb_vars, stats_vars, pnl_vars>>

RankNext ==
    \/ \E stats \in UNION {UserStatsOf(n) : n \in 1..MaxRanked} : RankPush(stats)
    \/ \E metric \in Metrics, builder_only \in BOOLEAN : RankCall(metric, builder_only)

\* Option<&str>::None
NoneS == [some |-> FALSE, v |-> ""]

\* Largest number of fills given to calculate_user_stats.
MaxStatFills == 2

\* The fills calculate_user_stats may be given.
SPrices == {1, 2}
SClosedPnls == {0, 2}
SAssets == {AssetFromSymbol("BTC"), AssetFromSymbol("NEWCOIN")}
StatFills ==
    [asset : SAssets, side : {"Buy"}, size : {1}, price : SPrices, fee : {1},
     closed_pnl : SClosedPnls, timestamp_ms : {1}, trade_id : 1..(MaxStatFills + 1)]

\* The coin filters: a known symbol in lower case, an unknown one in the
\* case of the fills and in lower case.
CoinFilters == {NoneS, Some("btc"), Some("NEWCOIN"), Some("newcoin")}

\* max_start_capital; the quotient by 2 is exact in Decimal.
Capitals == {NoneI, Some(0), Some(2)}

\* fills.iter().filter(|f| f.asset == target_asset) when a coin is given
CoinFiltered(fills, coin_filter) ==
    IF coin_filter.some
    THEN SelectSeq(fills, LAMBDA f : f.asset = AssetFromSymbol(coin_filter.v))
    ELSE fills

\* UserFill::notional_value / fill.price * fill.size
NotionalValue(fill) == fill.price * fill.size

\* if !builder_only || is_builder
CountsFill_NonBuilder(builder_only, is_builder) == ~builder_only \/ ~is_builder

CountsFill_Always(builder_only, is_builder) == TRUE

CountsFill(builder_only, is_builder) == ~builder_only \/ is_builder

\* The loop over the filtered fills; acc holds volume, realized_pnl,
\* builder_fill_count and counted_fills.
RECURSIVE StatsLoop(_, _, _, _)
StatsLoop(fills, builder_ids, builder_only, acc) ==
    IF fills = <<>> THEN acc
    ELSE LET fill == Head(fills)
             is_builder == fill.trade_id \in builder_ids
             counted == [acc EXCEPT
                 !.builder_fill_count = IF is_builder THEN @ + 1 ELSE @]
         IN  StatsLoop(Tail(fills), builder_ids, builder_only,
                 IF CountsFill(builder_only, is_builder)
                 THEN [counted EXCEPT !.volume = @ + NotionalValue(fill),
                                      !.realized_pnl = @ + (fill.closed_pnl - fill.fee),
                                      !.counted_fills = @ + 1]
                 ELSE counted)

\* calculate_user_stats
CalculateUserStats(user, fills, builder_ids, max_start_capital, coin_filter, builder_only) ==
    LET filtered == CoinFiltered(fills, coin_filter)
        sums == StatsLoop(filtered, builder_ids, builder_only,
                    [volume |-> 0, realized_pnl |-> 0, builder_fill_count |-> 0,
                     counted_fills |-> 0])
    IN  [user |-> user,
         volume |-> sums.volume,
         realized_pnl |-> sums.realized_pnl,
         return_pct |-> ReturnPct(sums.realized_pnl, max_start_capital),
         trade_count |-> sums.counted_fills,
         builder_fill_count |-> sums.builder_fill_count,
         taint_result |-> AnalyzeUserTaint(filtered, builder_ids)]

\* The stats of a user whose fetch failed (calculate_leaderboard, Err arm).
ZeroStats(user, max_start_capital) ==
    [user |-> user,
     volume |-> 0,
     realized_pnl |-> 0,
     return_pct |-> IF max_start_capital.some THEN Some(0) ELSE NoneI,
     trade_count |-> 0,
     builder_fill_count |-> 0,
     taint_result |-> DefaultTaintResult]

NoStatsCall ==
    [called |-> FALSE, user |-> "", coin |-> NoneS, capital |-> NoneI,
     builder_only |-> FALSE, result |-> ZeroStats("", NoneI)]

StatsInit ==
    /\ s_fills = <<>>
    /\ s_builder = {}
    /\ s_call = NoStatsCall

\* One more fill of the user (fresh trade id) with the checker's verdict.
StatsPush(fill, is_builder) ==
    /\ Len(s_fills) < MaxStatFills
    /\ fill.trade_id = Len(s_fills) + 1
    /\ s_fills' = Append(s_fills, fill)
    /\ s_builder' = IF is_builder THEN s_builder \cup {fill.trade_id} ELSE s_builder
    /\ s_call' = NoStatsCall
    /\ UNCHANGED <<feed_vars, ext_vars, rank_vars, lb_vars, pnl_vars>>

\* calculate_user_stats is called on the fills so far.
StatsCall(user, max_start_capital, coin_filter, builder_only) ==
    /\ s_call' = [called |-> TRUE, user |-> user, coin |-> coin_filter,
                  capital |-> max_start_capital, builder_only |-> builder_only,
                  result |-> CalculateUserStats(user, s_fills, s_builder,
                                 max_start_capital, coin_filter, builder_only)]
    /\ UNCHANGED <<s_fills, s_builder>>
    /\ UNCHANGED <<feed_vars, ext_vars, rank_vars, lb_vars, pnl_vars>>

StatsNext ==
    \/ \E fill \in StatFills, is_builder \in BOOLEAN : StatsPush(fill, is_builder)
    \/ \E max_start_capital \in Capitals, coin_filter \in CoinFilters,
          builder_only \in BOOLEAN :
          StatsCall("0xabc", max_start_capital, coin_filter, builder_only)

\* Largest number of users in one calculate_leaderboard call.
MaxBoardUsers == 2

\* The users lists (an address may be listed twice, or not parse).
UserLists == SeqsUpTo(Users, MaxBoardUsers) \ {<<>>}

\* The fills a fetch may return: none, or one fill.
BoardFills ==
    [asset : TAssets, side : {"Buy"}, size : {1}, price : {2}, fee : {1},
     closed_pnl : {2}, timestamp_ms : {1}, trade_id : {1, 2}]
BoardFillLists == {<<>>} \cup {<<f>> : f \in BoardFills}

BoardConfigs ==
    [builder_only : BOOLEAN, coin : {NoneS, Some("BTC")},
     max_start_capital : {NoneI, Some(2)}, from_ms : {NoneI}, to_ms : {NoneI}]

BoardCheckers == {{}, {1}}

\* The output of one fetch future: (user, fills_result); "pending" before.
PendingSlot == [state |-> "pending", user |-> "", fills |-> <<>>]

\* What indexer.get_user_fills(user, from_ms, to_ms) may resolve to: Ok with
\* some fills or Err; in Api mode a user that does not parse is always Err.
FetchOutcomes(user) ==
    {[state |-> "err", user |-> user, fills |-> <<>>]}
    \cup (IF fill_source = "Api" /\ ~ParsesAsAddress(user) THEN {}
          ELSE {[state |-> "ok", user |-> user, fills |-> fills] : fills \in BoardFillLists})

\* join_all(fetch_futures).await: the outputs in the order of the futures.
JoinAll_CompletionOrder(slots, order) == [k \in 1..Len(order) |-> slots[order[k]]]

JoinAll(slots, order) == [i \in 1..Len(slots) |-> slots[i]]

\* The match on one (user, fills_result) of the results.
StatsOfResult(result, config, checker) ==
    IF result.state = "ok"
    THEN CalculateUserStats(result.user, result.fills, checker, config.max_start_capital,
                            config.coin, config.builder_only)
    ELSE ZeroStats(result.user, config.max_start_capital)

BoardInit ==
    /\ cl_pc = "fetching"
    /\ cl_users \in UserLists
    /\ cl_config \in BoardConfigs
    /\ cl_checker \in BoardCheckers
    /\ cl_slots = [i \in 1..Len(cl_users) |-> PendingSlot]
    /\ cl_order = <<>>
    /\ cl_stats = <<>>

\* The fetch of the i-th user completes with `outcome`.
FetchDone(i, outcome) ==
    /\ cl_pc = "fetching"
    /\ i \in 1..Len(cl_users)
    /\ cl_slots[i].state = "pending"
    /\ outcome \in FetchOutcomes(cl_users[i])
    /\ cl_slots' = [cl_slots EXCEPT ![i] = outcome]
    /\ cl_order' = Append(cl_order, i)
    /\ UNCHANGED <<cl_pc, cl_users, cl_config, cl_checker, cl_stats>>
    /\ UNCHANGED <<feed_vars, ext_vars, rank_vars, stats_vars, pnl_vars>>

\* join_all has every output: the loop builds the stats and Ok(stats) returns.
JoinAndCalculate ==
    /\ cl_pc = "fetching"
    /\ \A i \in 1..Len(cl_users) : cl_slots[i].state # "pending"
    /\ LET results == JoinAll(cl_slots, cl_order)
       IN  cl_stats' = [k \in 1..Len(results) |->
                           StatsOfResult(results[k], cl_config, cl_checker)]
    /\ cl_pc' = "done"
    /\ UNCHANGED <<cl_users, cl_config, cl_checker, cl_slots, cl_order>>
    /\ UNCHANGED <<feed_vars, ext_vars, rank_vars, stats_vars, pnl_vars>>

BoardNext ==
    \/ \E i \in 1..MaxBoardUsers,
          outcome \in UNION {FetchOutcomes(user) : user \in Users} : FetchDone(i, outcome)
    \/ JoinAndCalculate

(***************************************************************************)
(*                      USER PNL  (hl-types/src/pnl.rs)                    *)
(***************************************************************************)

\* Largest number of fills stored in one UserPnL.
MaxPnlFills == 2

PnlAssets == {AssetFromSymbol("BTC"), AssetFromSymbol("ETH"), AssetFromSymbol("SOL")}

\* The fills add_fill may be given.
PnlFills ==
    [asset : PnlAssets, side : {"Buy"}, size : {1}, price : {2}, fee : {1},
     closed_pnl : {-1, 2}, timestamp_ms : {1, 2}]

\* Option<&[Asset]>: None, or a slice of assets (an asset may be repeated).
NoneF == [some |-> FALSE, v |-> <<>>]
AssetFilters == {NoneF} \cup {Some(f) : f \in SeqsUpTo(PnlAssets, 2)}

\* AssetPnL::new
NewAssetPnl(asset) ==
    [asset |-> asset, realized_pnl |-> 0, fees |-> 0, net_pnl |-> 0, fill_count |-> 0,
     volume |-> 0, first_fill_ms |-> NoneI, last_fill_ms |-> NoneI]

\* The loop of calculate_asset_pnl over the fills of one asset.
RECURSIVE AssetPnlLoop(_, _)
AssetPnlLoop(pnl, fills) ==
    IF fills = <<>> THEN pnl
    ELSE LET fill == Head(fills)
         IN  AssetPnlLoop(
                 [pnl EXCEPT
                     !.realized_pnl = @ + fill.closed_pnl,
                     !.fees = @ + fill.fee,
                     !.fill_count = @ + 1,
                     !.volume = @ + NotionalValue(fill),
                     !.first_fill_ms = IF ~@.some \/ fill.timestamp_ms < @.v
                                       THEN Some(fill.timestamp_ms) ELSE @,
                     !.last_fill_ms = IF ~@.some \/ fill.timestamp_ms > @.v
                                      THEN Some(fill.timestamp_ms) ELSE @],
                 Tail(fills))

\* UserPnL::calculate_asset_pnl
CalculateAssetPnl(asset, fills) ==
    LET pnl == AssetPnlLoop(NewAssetPnl(asset), fills)
    IN  [pnl EXCEPT !.net_pnl = pnl.realized_pnl - pnl.fees]

\* let assets_to_process = match assets { Some(filter) => filter, None => keys }
\* `order` is the iteration order of the keys of the map.
AssetsToProcess_AllKeys(assets, order) == order

AssetsToProcess(assets, order) == IF assets.some THEN assets.v ELSE order

\* The loop of calculate_pnl over assets_to_process.
RECURSIVE PnlLoop(_, _, _)
PnlLoop(summary, fba, to_process) ==
    IF to_process = <<>> THEN summary
    ELSE LET asset == Head(to_process)
         IN  IF asset \in DOMAIN fba
             THEN LET asset_pnl == CalculateAssetPnl(asset, fba[asset])
                  IN  PnlLoop([summary EXCEPT
                                  !.realized_pnl = @ + asset_pnl.realized_pnl,
                                  !.total_fees = @ + asset_pnl.fees,
                                  !.fill_count = @ + asset_pnl.fill_count,
                                  !.total_volume = @ + asset_pnl.volume,
                                  !.by_asset = MapInsert(@, asset, asset_pnl)],
                              fba, Tail(to_process))
             ELSE PnlLoop(summary, fba, Tail(to_process))

EmptySummary ==
    [realized_pnl |-> 0, total_fees |-> 0, net_pnl |-> 0, fill_count |-> 0,
     total_volume |-> 0, by_asset |-> EmptyMap]

\* calculate_pnl with net_pnl left as initialised
CalculatePnl_NetNotSet(fba, assets, order) ==
    PnlLoop(EmptySummary, fba, AssetsToProcess(assets, order))

\* UserPnL::calculate_pnl
CalculatePnl(fba, assets, order) ==
    LET summary == PnlLoop(EmptySummary, fba, AssetsToProcess(assets, order))
    IN  [summary EXCEPT !.net_pnl = summary.realized_pnl - summary.total_fees]

\* UserPnL::add_fill on the map
AddFillTo(fba, fill) ==
    MapInsert(fba, fill.asset,
              Append(IF fill.asset \in DOMAIN fba THEN fba[fill.asset] ELSE <<>>, fill))

RECURSIVE AddFillsTo(_, _)
AddFillsTo(fba, fills) ==
    IF fills = <<>> THEN fba ELSE AddFillsTo(AddFillTo(fba, Head(fills)), Tail(fills))

\* The loops of calculate_pnl_in_range: the fills of the assets to check
\* that lie in [from_ms, to_ms], added to a new tracker.
RECURSIVE RangeFiltered(_, _, _, _, _)
RangeFiltered(filtered, fba, to_check, from_ms, to_ms) ==
    IF to_check = <<>> THEN filtered
    ELSE LET asset == Head(to_check)
         IN  RangeFiltered(
                 IF asset \in DOMAIN fba
                 THEN AddFillsTo(filtered,
                          SelectSeq(fba[asset], LAMBDA fill :
                              fill.timestamp_ms >= from_ms /\ fill.timestamp_ms <= to_ms))
                 ELSE filtered,
                 fba, Tail(to_check), from_ms, to_ms)

\* The filters and bounds given to calculate_pnl_in_range.
RangeFilters == {NoneF} \cup {Some(f) : f \in SeqsUpTo(TAssets, 2)}
PnlTimes == {1, 2}

NoPnlCall ==
    [op |-> "", assets |-> NoneF, from_ms |-> 0, to_ms |-> 0, result |-> EmptySummary]

\* UserPnL::new
PnlInit ==
    /\ fills_by_asset = EmptyMap
    /\ total_fill_count = 0
    /\ p_call = NoPnlCall

\* UserPnL::add_fill
AddFill(fill) ==
    /\ total_fill_count < MaxPnlFills
    /\ fills_by_asset' = AddFillTo(fills_by_asset, fill)
    /\ total_fill_count' = total_fill_count + 1
    /\ p_call' = NoPnlCall
    /\ UNCHANGED <<feed_vars, ext_vars, rank_vars, lb_vars, stats_vars>>

\* UserPnL::add_fills
AddFills(fills) ==
    /\ total_fill_count + Len(fills) <= MaxPnlFills
    /\ fills_by_asset' = AddFillsTo(fills_by_asset, fills)
    /\ total_fill_count' = total_fill_count + Len(fills)
    /\ p_call' = NoPnlCall
    /\ UNCHANGED <<feed_vars, ext_vars, rank_vars, lb_vars, stats_vars>>

\* UserPnL::clear
PnlClear ==
    /\ fills_by_asset' = EmptyMap
    /\ total_fill_count' = 0
    /\ p_call' = NoPnlCall
    /\ UNCHANGED <<feed_vars, ext_vars, rank_vars, lb_vars, stats_vars>>

\* UserPnL::calculate_pnl(assets)
PnlCalculate(assets) ==
    /\ \E order \in KeyOrders(fills_by_asset) :
          p_call' = [op |-> "calculate_pnl", assets |-> assets, from_ms |-> 0, to_ms |-> 0,
                     result |-> CalculatePnl(fills_by_asset, assets, order)]
    /\ UNCHANGED <<fills_by_asset, total_fill_count>>
    /\ UNCHANGED <<feed_vars, ext_vars, rank_vars, lb_vars, stats_vars>>

\* UserPnL::calculate_pnl_in_range(from_ms, to_ms, assets)
PnlCalculateInRange(from_ms, to_ms, assets) ==
    /\ \E order \in KeyOrders(fills_by_asset) :
          LET filtered == RangeFiltered(EmptyMap, fills_by_asset,
                              AssetsToProcess(assets, order), from_ms, to_ms)
          IN  \E filtered_order \in KeyOrders(filtered) :
                p_call' = [op |-> "calculate_pnl_in_range", assets |-> assets,
                           from_ms |-> from_ms, to_ms |-> to_ms,
                           result |-> CalculatePnl(filtered, NoneF, filtered_order)]
    /\ UNCHANGED <<fills_by_asset, total_fill_count>>
    /\ UNCHANGED <<feed_vars, ext_vars, rank_vars, lb_vars, stats_vars>>

PnlNext ==
    \/ \E fill \in PnlFills : AddFill(fill)
    \/ \E fills \in SeqsUpTo(PnlFills, MaxPnlFills - total_fill_count) : AddFills(fills)
    \/ PnlClear
    \/ \E assets \in AssetFilters : PnlCalculate(assets)
    \/ \E from_ms \in PnlTimes, to_ms \in PnlTimes, assets \in RangeFilters :
          PnlCalculateInRange(from_ms, to_ms, assets)

(***************************************************************************)
(*          ENRICHER  (hl-builder-data/src/enricher.rs)                    *)
(***************************************************************************)

\* rust_decimal::Decimal: an integer mantissa m and a scale, the value
\* being m / 10^scale.  Parsing keeps the scale that was written: "1.0"
\* is (10, 1) and "1" is (1, 0).
Dec(m, scale) == [m |-> m, scale |-> scale]

RECURSIVE Pow10(_)
Pow10(n) == IF n = 0 THEN 1 ELSE 10 * Pow10(n - 1)

\* Decimal == Decimal compares the values, not the scales.
DecEq(a, b) == a.m * Pow10(b.scale) = b.m * Pow10(a.scale)

\* Decimal + Decimal: the result has the larger scale.
DecAdd(a, b) ==
    LET scale == IF a.scale > b.scale THEN a.scale ELSE b.scale
    IN  Dec(a.m * Pow10(scale - a.scale) + b.m * Pow10(scale - b.scale), scale)

\* Decimal * Decimal: the scales add up.
DecMul(a, b) == Dec(a.m * b.m, a.scale + b.scale)

\* Iterator::sum over Decimals, starting from Decimal::ZERO.
RECURSIVE DecSum(_)
DecSum(ds) == IF ds = <<>> THEN Dec(0, 0) ELSE DecAdd(Head(ds), DecSum(Tail(ds)))

\* Decimal::normalize: the same value without trailing zeros.
RECURSIVE Normalize(_)
Normalize(d) ==
    IF d.scale > 0 /\ d.m % 10 = 0 THEN Normalize(Dec(d.m \div 10, d.scale - 1)) ELSE d

DecimalDigits == <<"0", "1", "2", "3", "4", "5", "6", "7", "8", "9">>

RECURSIVE NatToString(_)
NatToString(n) ==
    IF n < 10 THEN DecimalDigits[n + 1]
    ELSE NatToString(n \div 10) \o DecimalDigits[(n % 10) + 1]

\* The last width digits of f, zero-padded on the left.
RECURSIVE FracToString(_, _)
FracToString(f, width) ==
    IF width = 0 THEN ""
    ELSE FracToString(f \div 10, width - 1) \o DecimalDigits[(f % 10) + 1]

\* Decimal's Display (to_string): the integer part, then "." and exactly
\* scale fractional digits; trailing zeros are printed.
DecimalToString(d) ==
    IF d.scale = 0 THEN NatToString(d.m)
    ELSE NatToString(d.m \div Pow10(d.scale)) \o "."
             \o FracToString(d.m % Pow10(d.scale), d.scale)

\* str::to_lowercase on the user addresses of the model.
ToLowercase(user) ==
    CASE user = "0xABC" -> "0xabc"
      [] OTHER -> user

\* Asset::symbol
AssetSymbol(asset) ==
    CASE asset.variant = "Btc" -> "BTC"
      [] asset.variant = "Eth" -> "ETH"
      [] asset.variant = "Sol" -> "SOL"
      [] OTHER -> asset.name

\* Largest number of builder fills given to FillEnricher::new.
MaxBuilderFills == 2

\* The amounts of the feeds: 1 written "1" and "1.0", and 2.
One == Dec(1, 0)
OnePointZero == Dec(10, 1)
Two == Dec(2, 0)

\* BuilderFill (the fields the enricher reads); time is a DateTime, kept
\* in milliseconds.
EBuilderFills ==
    [time_ms : {1000, 1500}, user : {"0xABC"}, asset : {AssetFromSymbol("NEWCOIN")},
     side : {"Bid"}, price : {One, OnePointZero}, size : {One}, builder_fee : {One, Two}]

\* UserFill (the fields the enricher reads) and the user it is looked up for.
EUserFills ==
    [asset : {AssetFromSymbol("btc"), AssetFromSymbol("newcoin")},
     timestamp_ms : {1999, 2000}, price : {One, Two}, size : {One, OnePointZero},
     side : {"Buy", "Sell"}]
EUsers == {"0xabc", "0xdef"}

\* DateTime::timestamp: the whole seconds.
Timestamp(time_ms) == time_ms \div 1000

\* FillKey::from_builder_fill
FromBuilderFill(fill) ==
    [user |-> ToLowercase(fill.user),
     coin |-> ToUpper(AssetSymbol(fill.asset)),
     time_sec |-> Timestamp(fill.time_ms),
     size |-> DecimalToString(fill.size),
     price |-> DecimalToString(fill.price),
     is_buy |-> fill.side = "Bid"]

\* FillKey::from_user_fill
FromUserFill(fill, user) ==
    [user |-> ToLowercase(user),
     coin |-> ToUpper(AssetSymbol(fill.asset)),
     time_sec |-> fill.timestamp_ms \div 1000,
     size |-> DecimalToString(fill.size),
     price |-> DecimalToString(fill.price),
     is_buy |-> fill.side = "Buy"]

\* fills_by_key.insert(key, fill): a later fill with the key replaces it.
RECURSIVE IndexFills(_, _)
IndexFills(index, fills) ==
    IF fills = <<>> THEN index
    ELSE LET fill == Head(fills)
             key == FromBuilderFill(fill)
         IN  IndexFills([k \in DOMAIN index \cup {key} |->
                            IF k = key THEN fill ELSE index[k]], Tail(fills))

\* FillEnricher::total_builder_fees
TotalBuilderFees(index, order) ==
    LET values == Values(index, order)
    IN  DecSum([i \in 1..Len(values) |-> values[i].builder_fee])

\* BuilderFill::notional_value
BuilderNotionalValue(fill) == DecMul(fill.price, fill.size)

\* FillEnricher::total_volume
TotalVolume(index, order) ==
    LET values == Values(index, order)
    IN  DecSum([i \in 1..Len(values) |-> BuilderNotionalValue(values[i])])

\* FillEnricher::is_builder_fill
IsBuilderFill(index, fill, user) == FromUserFill(fill, user) \in DOMAIN index

NoEnricherCall ==
    [op |-> "none", user |-> "",
     fill |-> [asset |-> AssetFromSymbol("BTC"), timestamp_ms |-> 0, price |-> Dec(0, 0),
               size |-> Dec(0, 0), side |-> "Buy"],
     result |-> FALSE, total_fills |-> 0,
     total_builder_fees |-> Dec(0, 0), total_volume |-> Dec(0, 0)]

\* FillEnricher::default(): no fill.
EnricherInit ==
    /\ builder_fills = <<>>
    /\ fills_by_key = EmptyMap
    /\ total_fills = 0
    /\ e_call = NoEnricherCall

\* FillEnricher::new(fills): the enricher is built once and only read
\* afterwards.
EnricherNew(fills) ==
    /\ builder_fills = <<>> /\ e_call = NoEnricherCall
    /\ fills # <<>>
    /\ builder_fills' = fills
    /\ fills_by_key' = IndexFills(EmptyMap, fills)
    /\ total_fills' = Len(fills)
    /\ e_call' = NoEnricherCall
    /\ UNCHANGED <<feed_vars, core_vars, bc_vars, h_vars>>

\* enricher.is_builder_fill(&fill, user)
EnricherIsBuilderFill(fill, user) ==
    /\ e_call' = [NoEnricherCall EXCEPT !.op = "is_builder_fill", !.user = user,
                      !.fill = fill,
                      !.result = IsBuilderFill(fills_by_key, fill, user)]
    /\ UNCHANGED <<builder_fills, fills_by_key, total_fills>>
    /\ UNCHANGED <<feed_vars, core_vars, bc_vars, h_vars>>

\* enricher.total_fills(), total_builder_fees() and total_volume()
EnricherTotals ==
    /\ \E order \in KeyOrders(fills_by_key) :
          e_call' = [NoEnricherCall EXCEPT !.op = "totals",
                         !.total_fills = total_fills,
                         !.total_builder_fees = TotalBuilderFees(fills_by_key, order),
                         !.total_volume = TotalVolume(fills_by_key, order)]
    /\ UNCHANGED <<builder_fills, fills_by_key, total_fills>>
    /\ UNCHANGED <<feed_vars, core_vars, bc_vars, h_vars>>

EnricherNext ==
    \/ \E fills \in SeqsUpTo(EBuilderFills, MaxBuilderFills) : EnricherNew(fills)
    \/ \E fill \in EUserFills, user \in EUsers : EnricherIsBuilderFill(fill, user)
    \/ EnricherTotals

(***************************************************************************)
(*     BUILDER FEED CLIENT  (hl-builder-data/src/client.rs)                *)
(***************************************************************************)

\* Days are numbered; LastDay stands for NaiveDate::MAX, the day on which
\* succ_opt() returns None.
LastDay == 3
Days == 1..LastDay

\* Largest number of fills in the file of one day.
MaxDayFills == 1

\* The fills of the feed: the file of a day may hold any times in any order.
BcFills == [time : {1, 2}, user : {"0xabc", "0xdef"}]

\* What fetch_fills(date) answers: Ok(fills), NotFound (HTTP 403 or 404),
\* or another error.
OkAnswer(fills) == [kind |-> "Ok", fills |-> fills]
ErrAnswer(kind) == [kind |-> kind, fills |-> <<>>]
FetchAnswers ==
    {OkAnswer(fills) : fills \in SeqsUpTo(BcFills, MaxDayFills)}
    \cup {ErrAnswer(kind) : kind \in {"NotFound", "Http", "CsvParse"}}

\* all_fills.sort_by_key(|f| f.time)
SortByKeyTime_Unsorted(fills) == fills

SortByKeyTime(fills) == StableSort(fills, LAMBDA a, b : a.time < b.time)

ClientInit ==
    /\ bc_pc = "idle" /\ bc_from = 1 /\ bc_to = 1 /\ bc_current = 1
    /\ bc_all_fills = <<>> /\ bc_ret = <<>> /\ bc_err = "" /\ bc_fetched = <<>>

\* fetch_fills_range(from, to) is called: all_fills = [], current = from.
FetchFillsRange(from, to) ==
    /\ bc_pc = "idle"
    /\ bc_pc' = "loop"
    /\ bc_from' = from /\ bc_to' = to /\ bc_current' = from
    /\ UNCHANGED <<bc_all_fills, bc_ret, bc_err, bc_fetched>>
    /\ UNCHANGED <<feed_vars, core_vars, enr_vars, h_vars>>

\* The loop test fails: sort and return Ok(all_fills).
RangeReturn ==
    /\ bc_pc = "loop"
    /\ ~(bc_current <= bc_to)
    /\ bc_pc' = "ok"
    /\ bc_ret' = SortByKeyTime(bc_all_fills)
    /\ UNCHANGED <<bc_from, bc_to, bc_current, bc_all_fills, bc_err, bc_fetched>>
    /\ UNCHANGED <<feed_vars, core_vars, enr_vars, h_vars>>

\* One turn of the loop: fetch_fills(current) answers, the match runs,
\* then current = current.succ_opt().ok_or(InvalidDate)?.
RangeFetchDay(answer) ==
    /\ bc_pc = "loop"
    /\ bc_current <= bc_to
    /\ bc_fetched' = Append(bc_fetched, [day |-> bc_current, answer |-> answer])
    /\ IF answer.kind \notin {"Ok", "NotFound"}
       THEN /\ bc_pc' = "err" /\ bc_err' = answer.kind
            /\ UNCHANGED <<bc_all_fills, bc_current>>
       ELSE /\ bc_all_fills' = bc_all_fills \o answer.fills
            /\ IF bc_current = LastDay
               THEN /\ bc_pc' = "err" /\ bc_err' = "InvalidDate"
                    /\ UNCHANGED bc_current
               ELSE /\ bc_current' = bc_current + 1
                    /\ UNCHANGED <<bc_pc, bc_err>>
    /\ UNCHANGED <<bc_from, bc_to, bc_ret>>
    /\ UNCHANGED <<feed_vars, core_vars, enr_vars, h_vars>>

ClientNext ==
    \/ \E from \in Days, to \in Days : FetchFillsRange(from, to)
    \/ RangeReturn
    \/ \E answer \in FetchAnswers : RangeFetchDay(answer)

(***************************************************************************)
(*     LEADERBOARD HANDLER  (hl-api/src/handlers.rs, get_leaderboard)      *)
(***************************************************************************)

\* Largest number of competition users configured.
MaxCompetitionUsers == 2

\* CompetitionConfig: competition_users, target_builder, builder_only.
HandlerStates ==
    [competition_users : {[i \in 1..n |-> UserName(i)] : n \in 0..MaxCompetitionUsers},
     target_builder : {NoneS, Some("0xb1")},
     builder_only : BOOLEAN]

\* The metric strings a request may carry ("volume" when absent).
MetricStrings == {"volume", "pnl", "returnPct", "RETURN", "sharpe"}

\* LeaderboardQuery; days stand for the millisecond times.
HandlerDays == {1, 2}
LeaderboardQueries ==
    [metric : MetricStrings,
     from_ms : {NoneI} \cup {Some(d) : d \in HandlerDays},
     to_ms : {NoneI, Some(2)},
     max_start_capital : {NoneI, Some(2)},
     builder_only : {FALSE}]

\* LeaderboardMetric::from_str: matched on the lower-cased string.
ParseMetric(metric) ==
    CASE metric = "volume" -> Some("Volume")
      [] metric = "pnl" -> Some("Pnl")
      [] metric \in {"returnPct", "RETURN"} -> Some("ReturnPct")
      [] OTHER -> NoneS

\* The checks at the top of get_leaderboard: the BadRequest returned, or
\* "" when the request passes them.
ValidateRequest_NoCapitalCheck(state, query) ==
    IF state.competition_users = <<>> THEN "competition not configured"
    ELSE IF ~ParseMetric(query.metric).some THEN "invalid metric"
    ELSE IF ParseMetric(query.metric).v = "ReturnPct" /\ ~query.from_ms.some
         THEN "from_ms is required"
    ELSE ""

ValidateRequest(state, query) ==
    IF state.competition_users = <<>> THEN "competition not configured"
    ELSE IF ~ParseMetric(query.metric).some THEN "invalid metric"
    ELSE IF ParseMetric(query.metric).v = "ReturnPct" /\ ~query.from_ms.some
         THEN "from_ms is required"
    ELSE IF ParseMetric(query.metric).v = "ReturnPct" /\ ~query.max_start_capital.some
         THEN "maxStartCapital is required"
    ELSE ""

\* fetch_builder_fills: the days of the range; now is day 2 and the
\* default range is the last week (scaled to one day).
HandlerNow == 2
HandlerWeek == 1
BuilderFromDate(query) == IF query.from_ms.some THEN query.from_ms.v ELSE HandlerNow - HandlerWeek
BuilderToDate(query) == IF query.to_ms.some THEN query.to_ms.v ELSE HandlerNow

NoQuery ==
    [metric |-> "volume", from_ms |-> NoneI, to_ms |-> NoneI,
     max_start_capital |-> NoneI, builder_only |-> FALSE]

HandlerInit ==
    /\ h_pc = "idle"
    /\ h_state = [competition_users |-> <<>>, target_builder |-> NoneS, builder_only |-> FALSE]
    /\ h_query = NoQuery
    /\ h_resp = 0
    /\ h_fetches = <<>>

\* GET /v1/leaderboard arrives: the checks, then the builder feed when a
\* target builder is configured.
GetLeaderboard(state, query) ==
    /\ h_pc = "idle"
    /\ h_state' = state /\ h_query' = query
    /\ IF ValidateRequest(state, query) # ""
       THEN h_pc' = "responded" /\ h_resp' = 400
       ELSE /\ h_pc' = IF state.target_builder.some THEN "builder_feed" ELSE "users"
            /\ h_resp' = 0
    /\ UNCHANGED h_fetches
    /\ UNCHANGED <<feed_vars, core_vars, enr_vars, bc_vars>>

\* fetch_builder_fills: client.fetch_fills(current_date) for the next day
\* of the range (its answer, an error included, does not end the loop).
HandlerBuilderFetch ==
    /\ h_pc = "builder_feed"
    /\ LET fetched == Len(h_fetches)
           current_date == BuilderFromDate(h_query) + fetched
       IN  /\ current_date <= BuilderToDate(h_query)
           /\ h_fetches' = Append(h_fetches, [kind |-> "builder_feed", n |-> current_date])
    /\ UNCHANGED <<h_pc, h_state, h_query, h_resp>>
    /\ UNCHANGED <<feed_vars, core_vars, enr_vars, bc_vars>>

\* fetch_builder_fills returns the enricher; calculate_leaderboard starts
\* one get_user_fills per competition user.
HandlerFeedDone ==
    /\ h_pc = "builder_feed"
    /\ ~(BuilderFromDate(h_query) + Len(h_fetches) <= BuilderToDate(h_query))
    /\ h_pc' = "users"
    /\ UNCHANGED <<h_state, h_query, h_resp, h_fetches>>
    /\ UNCHANGED <<feed_vars, core_vars, enr_vars, bc_vars>>

\* calculate_leaderboard issues the user-fill fetches, rank_leaderboard
\* runs and the response is sent.
HandlerUsers ==
    /\ h_pc = "users"
    /\ h_fetches' = h_fetches \o
          [i \in 1..Len(h_state.competition_users) |-> [kind |-> "user_fills", n |-> i]]
    /\ h_pc' = "responded"
    /\ h_resp' = 200
    /\ UNCHANGED <<h_state, h_query>>
    /\ UNCHANGED <<feed_vars, core_vars, enr_vars, bc_vars>>

HandlerNext ==
    \/ \E state \in HandlerStates, query \in LeaderboardQueries : GetLeaderboard(state, query)
    \/ HandlerBuilderFetch
    \/ HandlerFeedDone
    \/ HandlerUsers

(***************************************************************************)
(*                        SPECIFICATIONS                                   *)
(***************************************************************************)

\* The values the variables of a component keep while another one runs.
FetchIdle ==
    /\ f_pc = "ok" /\ f_start = 0 /\ all_fills = <<>> /\ seen_tids = {}
    /\ current_end_time = NoneI /\ f_ret = <<>> /\ first_recv = EmptyMap /\ f_dup = FALSE
    /\ f_end = NoneI /\ f_err = NoError /\ f_honest = TRUE /\ f_ledger = {}

CollIdle == CollInit({}) /\ q_call = NoCall /\ fill_source = "Api"

\* No leaderboard call in progress: an empty users list, already returned.
BoardIdle ==
    /\ cl_pc = "done" /\ cl_users = <<>> /\ cl_config = [builder_only |-> FALSE, coin |-> NoneS, max_start_capital |-> NoneI,
                   from_ms |-> NoneI, to_ms |-> NoneI]
    /\ cl_checker = {} /\ cl_slots = <<>> /\ cl_order = <<>> /\ cl_stats = <<>>

\* The enricher, the feed client and the handler at rest.
ExtIdle == EnricherInit /\ ClientInit /\ HandlerInit

CalcIdle == RankInit /\ BoardIdle /\ StatsInit /\ PnlInit /\ ExtIdle

FeedIdle == FetchIdle /\ CollIdle /\ TaintInit

\* One call of ApiClient::user_fills_by_time against an arbitrary exchange.
InitFetch == FetchInit /\ CollIdle /\ TaintInit /\ CalcIdle

SpecFetch == InitFetch /\ [][FetchNext]_vars

\* Scheduling: every request is answered, with a page or with a failure.
FairSpecFetch == SpecFetch /\ WF_vars(FetchNext)

\* The ledgers of fewer than MAX_TOTAL_FILLS fills (trade ids 1..k, any
\* times) and the end_time arguments used against them.
Ledgers ==
    UNION {{{[tid |-> t, time |-> times[t]] : t \in 1..k} : times \in [1..k -> FTimes]} :
              k \in 0..(MAX_TOTAL_FILLS - 1)}
LedgerEndTimes == {NoneI, Some(1), Some(3)}

\* One call against an exchange that answers every request with the most
\* recent matching fills of its ledger.
LedgerInit == FetchStart(Ledgers, LedgerEndTimes)

InitLedger == LedgerInit /\ CollIdle /\ TaintInit /\ CalcIdle

SpecLedger == InitLedger /\ [][LedgerNext]_vars

\* The collector used by two concurrent callers (clones share the state).
CollectorInit == CollInit({1, 2}) /\ q_call = NoCall /\ fill_source = "WebSocket"

InitCollector == CollectorInit /\ FetchIdle /\ TaintInit /\ CalcIdle

SpecCollector == InitCollector /\ [][CollectorStep]_vars

\* Scheduling: the runtime keeps polling a spawned task and a call that
\* has started (weak fairness of their steps), and the connection keeps
\* yielding frames (heartbeats) to a task that waits.  Nothing obliges a
\* caller to call start() or stop().
CollectorFairness ==
    \A c \in {1, 2} :
        /\ WF_vars(StartMark(c))
        /\ WF_vars(StartSpawn(c))
        /\ WF_vars(TaskCheck(c))
        /\ WF_vars(\E msg \in Messages : TaskRecv(c, msg))
        /\ WF_vars(StopJoin(c))

FairSpecCollector == SpecCollector /\ CollectorFairness

\* One caller, the collector task and the readers, in WebSocket mode.
ReadsInit == CollInit({1}) /\ q_call = NoCall /\ fill_source = "WebSocket"

ReadsNext == CollectorStep \/ ReadStep

InitReads == ReadsInit /\ FetchIdle /\ TaintInit /\ CalcIdle

SpecReads == InitReads /\ [][ReadsNext]_vars

\* One caller, the task inserting fill by fill under the lock of the
\* store, and readers and clear() that wait for the lock.
LockedNext ==
    \/ \E user \in Users : StartCheck(1, user)
    \/ StartMark(1)
    \/ StartSpawn(1)
    \/ TaskCheck(1)
    \/ \E msg \in Messages : Len(msg.fills) = 0 /\ TaskRecv(1, msg)
    \/ \E msg \in Messages : TaskLock(1, msg)
    \/ TaskInsert(1)
    \/ StopSignal(1)
    \/ StopJoin(1)
    \/ ReadLockGranted /\ Clear
    \/ ReadLockGranted /\ ReadStep

SpecLocked == InitReads /\ [][LockedNext]_vars

\* An indexer in Api mode answering get_user_fills (no collector started).
ApiNext ==
    \E user \in Users, from_ms \in OptBounds, to_ms \in OptBounds :
        IndexerGetUserFills(user, from_ms, to_ms)

InitApi == CollIdle /\ FetchIdle /\ TaintInit /\ CalcIdle

SpecApi == InitApi /\ [][ApiNext]_vars

\* A tracker fed the fills of one user, and analyze_user_taint on them.
InitTaint == TaintInit /\ FetchIdle /\ CollIdle /\ CalcIdle

SpecTaint == InitTaint /\ [][TaintNext]_vars

\* One call of rank_leaderboard on the stats a caller collected.
InitRank == RankInit /\ FeedIdle /\ BoardIdle /\ StatsInit /\ PnlInit /\ ExtIdle

SpecRank == InitRank /\ [][RankNext]_vars

\* One call of calculate_leaderboard with its concurrent fetches.
InitBoard == BoardInit /\ FeedIdle /\ RankInit /\ StatsInit /\ PnlInit /\ ExtIdle

SpecBoard == InitBoard /\ [][BoardNext]_vars

\* calculate_user_stats on the fills of one user.
InitStats == StatsInit /\ FeedIdle /\ RankInit /\ BoardIdle /\ PnlInit /\ ExtIdle

SpecStats == InitStats /\ [][StatsNext]_vars

\* One UserPnL tracker and the calculations on it.
InitPnl == PnlInit /\ FeedIdle /\ RankInit /\ BoardIdle /\ StatsInit /\ ExtIdle

SpecPnl == InitPnl /\ [][PnlNext]_vars

\* The rest of the program at rest.
CoreIdle == FeedIdle /\ RankInit /\ BoardIdle /\ StatsInit /\ PnlInit

\* One enricher, rebuilt from any list of builder fills, and its queries.
InitEnricher == EnricherInit /\ CoreIdle /\ ClientInit /\ HandlerInit

SpecEnricher == InitEnricher /\ [][EnricherNext]_vars

\* One call of fetch_fills_range against an arbitrary feed.
InitClient == ClientInit /\ CoreIdle /\ EnricherInit /\ HandlerInit

SpecClient == InitClient /\ [][ClientNext]_vars

\* Scheduling: the runtime keeps polling the call, and every request to
\* the feed is answered.
FairSpecClient ==
    SpecClient /\ WF_vars(RangeReturn) /\ WF_vars(\E answer \in FetchAnswers : RangeFetchDay(answer))

\* One leaderboard request against any competition configuration.
InitHandler == HandlerInit /\ CoreIdle /\ EnricherInit /\ ClientInit

SpecHandler == InitHandler /\ [][HandlerNext]_vars

\* The whole program.
Init ==
    /\ FetchInit /\ CollectorInit /\ TaintInit /\ RankInit /\ BoardInit /\ StatsInit /\ PnlInit
    /\ EnricherInit /\ ClientInit /\ HandlerInit

Next ==
    \/ FetchNext \/ CollectorStep \/ ReadStep \/ TaintNext
    \/ RankNext \/ BoardNext \/ StatsNext \/ PnlNext
    \/ EnricherNext \/ ClientNext \/ HandlerNext

Spec == Init /\ [][Next]_vars

(***************************************************************************)
(*                            PROPERTIES                                   *)
(***************************************************************************)

Distinct(fills) ==
    \A i, j \in 1..Len(fills) : i # j => fills[i].tid # fills[j].tid

\* C1: when user_fills_by_time returns Ok, no two returned fills have the
\* same tid, every tid received is returned, and the fill returned for a
\* tid is the first fill received with that tid.
C1_DedupKeepsFirst ==
    f_pc = "ok" =>
        /\ Distinct(f_ret)
        /\ {f_ret[i].tid : i \in 1..Len(f_ret)} = DOMAIN first_recv
        /\ \A i \in 1..Len(f_ret) : f_ret[i] = first_recv[f_ret[i].tid]

\* A call returned Ok after some tid had been received more than once.
C1_Witness == f_pc = "ok" /\ f_dup /\ Len(f_ret) >= 2

\* C2: the list returned with Ok holds at most MAX_TOTAL_FILLS fills.
C2_Ceiling == f_pc = "ok" => Len(f_ret) <= MAX_TOTAL_FILLS

\* C3: in Api mode a fetch with from_ms given (and a valid address) goes
\* to the time-range endpoint userFillsByTime.
C3_TimeRangeEndpoint ==
    (q_call.op = "get_user_fills" /\ fill_source = "Api"
        /\ q_call.status # "InvalidAddress" /\ q_call.from.some)
    => q_call.endpoint = "userFillsByTime"

\* C4: at most one caller holds a handle returned by start() on which
\* stop() has not been called.
C4_AtMostOneHandle == Cardinality({c \in Callers : c_pc[c] = "running"}) <= 1

\* C5: the store holds, per trade id received since the last clear(), the
\* most recently received fill with that id, and nothing else; fill_count()
\* is the number of distinct trade ids received since the last clear().
C5_StoreIsLastReceived ==
    /\ DOMAIN store = DOMAIN last_recv
    /\ \A t \in DOMAIN store : store[t] = last_recv[t]
    /\ FillCount(store) = Cardinality(DOMAIN last_recv)

\* A task is running and a trade id has been received more than once.
C5_Witness ==
    /\ \E t \in Callers : task_pc[t] \in {"check", "wait"}
    /\ c_dup
    /\ FillCount(store) = 2

NonDecreasingTime(fills) ==
    \A i \in 1..(Len(fills) - 1) : fills[i].time <= fills[i + 1].time

\* `fills` lists exactly the stored fills whose key is in `keys`, once each.
ListsExactly(fills, keys) ==
    /\ Len(fills) = Cardinality(keys)
    /\ Range(fills) = {store[t] : t \in keys}

\* C6: get_fills returns every stored fill, get_fills_in_range exactly those
\* with from_ms <= time <= to_ms, get_fills_for_asset exactly those whose
\* coin equals the symbol ignoring ASCII case; each ordered by time.
C6_ReadsExactAndSorted ==
    /\ q_call.op = "get_fills" =>
          /\ ListsExactly(q_call.result, DOMAIN store)
          /\ NonDecreasingTime(q_call.result)
    /\ q_call.op = "get_fills_in_range" =>
          /\ ListsExactly(q_call.result,
                 {t \in DOMAIN store : q_call.from.v <= store[t].time
                                       /\ store[t].time <= q_call.to.v})
          /\ NonDecreasingTime(q_call.result)
    /\ q_call.op = "get_fills_for_asset" =>
          /\ ListsExactly(q_call.result,
                 {t \in DOMAIN store : ToUpper(store[t].coin) = ToUpper(q_call.asset)})
          /\ NonDecreasingTime(q_call.result)

\* A range read that selected one of two stored fills.
C6_Witness ==
    /\ q_call.op = "get_fills_in_range"
    /\ FillCount(store) = 2
    /\ Len(q_call.result) = 1

\* C7: in WebSocket mode every fill returned by Indexer::get_user_fills is
\* held by the collector and respects each bound that was given.
C7_EachBoundApplied ==
    (q_call.op = "get_user_fills" /\ fill_source = "WebSocket") =>
        \A i \in 1..Len(q_call.result) :
            /\ q_call.result[i] \in {ConvertFill(store[t]) : t \in DOMAIN store}
            /\ q_call.from.some => q_call.result[i].timestamp_ms >= q_call.from.v
            /\ q_call.to.some => q_call.result[i].timestamp_ms <= q_call.to.v

\* C8: once stop() has set the flag to false, the task terminates and
\* stop() returns, with is_running false at that moment; a task terminates
\* only when the flag is false.
C8_StopJoinsTask ==
    /\ \A c \in {1, 2} : (c_pc[c] = "join") ~> (task_pc[c] = "done")
    /\ \A c \in {1, 2} : (c_pc[c] = "join") ~> (c_pc[c] = "idle")
    /\ [][\A c \in {1, 2} :
            /\ (c_pc[c] = "join" /\ c_pc'[c] = "idle") => ~is_running'
            /\ (task_pc[c] # "done" /\ task_pc'[c] = "done") => ~is_running]_vars

\* C9: process_fill sets the position of the fill's asset to prev + size
\* (Buy) or prev - size (Sell), returns true exactly for a non-builder fill
\* with prev # 0 or new # 0; a builder fill increments builder_fills and
\* leaves the taint state alone, and so does a flat non-builder fill.
C9_ProcessFillEffect ==
    [][tracker'.total_fills = tracker.total_fills + 1 =>
        LET fill == a_fills'[Len(a_fills')]
            is_builder == fill.trade_id \in a_builder'
            prev == GetPosition(tracker, fill.asset)
            new == GetPosition(tracker', fill.asset)
            taintKept == /\ tracker'.tainted_assets = tracker.tainted_assets
                         /\ tracker'.tainted_fills = tracker.tainted_fills
                         /\ tracker'.first_taint_ms = tracker.first_taint_ms
        IN  /\ fill.asset \in DOMAIN tracker'.positions
            /\ new = IF fill.side = "Buy" THEN prev + fill.size ELSE prev - fill.size
            /\ pf_ret' = (~is_builder /\ (prev # 0 \/ new # 0))
            /\ is_builder =>
                  /\ tracker'.builder_fills = tracker.builder_fills + 1
                  /\ taintKept
            /\ ~is_builder => tracker'.builder_fills = tracker.builder_fills
            /\ (~is_builder /\ prev = 0 /\ new = 0) => taintKept
    ]_vars

\* A builder fill and then a tainting fill have been processed.
C9_Witness == pf_ret /\ tracker.builder_fills = 1 /\ tracker.total_fills = 2

InsertAt(s, p, x) == SubSeq(s, 1, p - 1) \o <<x>> \o SubSeq(s, p, Len(s))

\* A further non-builder fill (fresh trade id), whatever the position.
ExtraFills == {g \in UserFills : g.trade_id = MaxFills + 1}

\* C10: a tainted tracker stays tainted after any further process_fill, and
\* when analyze_user_taint returned tainted for the fills, it is tainted too
\* for the fills with a non-builder fill added (at any place of the list).
C10_TaintMonotone ==
    /\ [][IsTainted(tracker) => IsTainted(tracker')]_vars
    /\ []((a_result.called /\ a_result.tainted) =>
            \A g \in ExtraFills, p \in 1..(Len(a_fills) + 1) :
                AnalyzeUserTaint(InsertAt(a_fills, p, g), a_builder).tainted)

\* A tainted tracker has processed a further, non-tainting fill, and the
\* analysis of the two fills returned tainted.
C10_Witness ==
    /\ IsTainted(tracker) /\ ~pf_ret /\ tracker.total_fills = 2
    /\ a_result.called /\ a_result.tainted

\* C11: when the checker classifies every fill as a builder fill,
\* analyze_user_taint reports not tainted, no tainted fill, no tainted
\* asset, no first taint timestamp and builder_fills = total_fills (the
\* number of fills), whatever the fills and their order.
C11_AllBuilderUntainted ==
    (a_result.called /\ \A i \in 1..Len(a_fills) : a_fills[i].trade_id \in a_builder) =>
        /\ ~a_result.tainted
        /\ a_result.tainted_fills = 0
        /\ a_result.tainted_assets = {}
        /\ a_result.first_taint_timestamp_ms = NoneI
        /\ a_result.builder_fills = a_result.total_fills
        /\ a_result.total_fills = Len(a_fills)

\* Two builder fills were analysed, listed later-first, and a position is
\* left open.
C11_Witness ==
    /\ a_result.called /\ a_result.builder_fills = 2
    /\ a_fills[1].timestamp_ms > a_fills[2].timestamp_ms
    /\ \E asset \in DOMAIN tracker.positions : tracker.positions[asset] # 0

\* Every ordering of the same fills.
PermutationsOf(fills) ==
    {[i \in 1..Len(fills) |-> fills[f[i]]] : f \in Permutations(1..Len(fills))}

\* C12: analyze_user_taint returns the same tainted flag, counts, set of
\* tainted assets and first taint timestamp for every permutation of the
\* fill list.
C12_OrderIndependent ==
    a_result.called =>
        \A p \in PermutationsOf(a_fills) : AnalyzeUserTaint(p, a_builder) = a_result

\* The net of the signed sizes of the first n fills that are in `asset`.
RECURSIVE OwnNet(_, _, _)
OwnNet(fills, asset, n) ==
    IF n = 0 THEN 0
    ELSE OwnNet(fills, asset, n - 1)
         + (IF fills[n].asset = asset THEN SignedSize(fills[n]) ELSE 0)

\* The assets with a tainting fill: a non-builder fill of the asset made
\* when the asset's own net position was non-zero before or after it.
TaintingAssets(fills, builder_ids) ==
    {fills[i].asset : i \in {k \in 1..Len(fills) :
        /\ fills[k].trade_id \notin builder_ids
        /\ \/ OwnNet(fills, fills[k].asset, k - 1) # 0
           \/ OwnNet(fills, fills[k].asset, k) # 0}}

\* C13: the position of an asset is the net of the fills of that asset
\* only; the tainted assets (of the tracker and of analyze_user_taint) are
\* exactly the assets that had a tainting fill; tainted iff that set is
\* not empty.
C13_TaintPerAsset ==
    /\ \A asset \in TAssets :
          (IF asset \in DOMAIN tracker.positions THEN tracker.positions[asset] ELSE 0)
              = OwnNet(a_fills, asset, Len(a_fills))
    /\ DOMAIN tracker.tainted_assets = TaintingAssets(a_fills, a_builder)
    /\ TrackerResult(tracker).tainted <=> (TaintingAssets(a_fills, a_builder) # {})
    /\ a_result.called =>
          /\ a_result.tainted_assets = TaintingAssets(SortByTimestamp(a_fills), a_builder)
          /\ a_result.tainted <=> (a_result.tainted_assets # {})

\* One asset is tainted while the other holds an open, untainted position,
\* and the analysis of the two fills was made.
C13_Witness ==
    /\ Cardinality(DOMAIN tracker.tainted_assets) = 1
    /\ \E asset \in DOMAIN tracker.positions :
          asset \notin DOMAIN tracker.tainted_assets /\ tracker.positions[asset] # 0
    /\ a_result.called /\ a_result.tainted

\* The value an entry is ranked by, read from the entry's own fields.
MetricOfEntry(e, metric) ==
    CASE metric = "Volume" -> e.volume
      [] metric = "Pnl" -> e.realized_pnl
      [] metric = "ReturnPct" -> IF e.return_pct.some THEN e.return_pct.v ELSE 0

\* C14: rank_leaderboard returns entries with entries[i].rank = i + 1
\* (from 0), metric_value the volume, realized_pnl or return_pct (0 when
\* absent) of the chosen metric, and metric_value non-increasing.
C14_RanksDescending ==
    r_pc = "ranked" =>
        \A i \in 1..Len(r_entries) :
            /\ r_entries[i].rank = i
            /\ r_entries[i].metric_value = MetricOfEntry(r_entries[i], r_metric)
            /\ i < Len(r_entries) =>
                  r_entries[i].metric_value >= r_entries[i + 1].metric_value

\* Ranked by return_pct: a user without return_pct stands between a
\* positive and a negative one.
C14_Witness ==
    /\ r_pc = "ranked" /\ r_metric = "ReturnPct" /\ Len(r_entries) = 3
    /\ r_entries[1].metric_value = 50
    /\ ~r_entries[2].return_pct.some /\ r_entries[2].metric_value = 0
    /\ r_entries[3].metric_value = -50

\* The place of a user in the input of the ranking (users are distinct).
InputIndex(user) == CHOOSE i \in 1..Len(r_stats) : r_stats[i].user = user

\* C15: users with equal metric values appear in the output in the same
\* relative order as in the input.
C15_TiesKeepInputOrder ==
    r_pc = "ranked" =>
        \A k, l \in 1..Len(r_entries) :
            (k < l /\ r_entries[k].metric_value = r_entries[l].metric_value)
                => InputIndex(r_entries[k].user) < InputIndex(r_entries[l].user)

\* The last user of the input was moved in front of two tied users.
C15_Witness ==
    /\ r_pc = "ranked" /\ Len(r_entries) = 3
    /\ r_entries[1].user = UserName(3)
    /\ r_entries[2].metric_value = r_entries[3].metric_value
    /\ r_entries[1].metric_value > r_entries[2].metric_value

C17_OneEntryPerUser ==
    cl_pc = "done" =>
        /\ Len(cl_stats) = Len(cl_users)
        /\ \A i \in 1..Len(cl_users) :
              /\ cl_stats[i].user = cl_users[i]
              /\ cl_slots[i].state = "err" =>
                    /\ cl_stats[i].volume = 0
                    /\ cl_stats[i].realized_pnl = 0
                    /\ cl_stats[i].trade_count = 0
                    /\ cl_stats[i].builder_fill_count = 0
                    /\ cl_stats[i].taint_result = DefaultTaintResult
              /\ cl_slots[i].state = "ok" =>
                    cl_stats[i] = CalculateUserStats(cl_users[i], cl_slots[i].fills,
                                      cl_checker, cl_config.max_start_capital,
                                      cl_config.coin, cl_config.builder_only)

\* Two different users; the second fetch completed first and failed, the
\* first one brought a fill that counts.
C17_Witness ==
    /\ cl_pc = "done" /\ Len(cl_users) = 2 /\ cl_users[1] # cl_users[2]
    /\ cl_order = <<2, 1>>
    /\ cl_slots[2].state = "err"
    /\ cl_slots[1].state = "ok" /\ cl_stats[1].volume > 0

\* The indexes of the fills that pass the coin filter of the last call, and
\* of those among them that the checker classifies as builder fills.
CoinIdx ==
    {i \in 1..Len(s_fills) :
        s_call.coin.some => s_fills[i].asset = AssetFromSymbol(s_call.coin.v)}
BuilderIdx == {i \in CoinIdx : s_fills[i].trade_id \in s_builder}

RECURSIVE SumNotional(_)
SumNotional(idx) ==
    IF idx = {} THEN 0
    ELSE LET i == CHOOSE x \in idx : TRUE
         IN  s_fills[i].price * s_fills[i].size + SumNotional(idx \ {i})

RECURSIVE SumNet(_)
SumNet(idx) ==
    IF idx = {} THEN 0
    ELSE LET i == CHOOSE x \in idx : TRUE
         IN  s_fills[i].closed_pnl - s_fills[i].fee + SumNet(idx \ {i})

\* The stats of the last call, and those of the same call in the mode b.
StatsInMode(b) ==
    IF s_call.builder_only = b THEN s_call.result
    ELSE CalculateUserStats(s_call.user, s_fills, s_builder, s_call.capital, s_call.coin, b)

\* C18 (as stated): with builder_only = true the volume and the realized_pnl
\* are each at most their value with builder_only = false.
C18_BuilderOnlyNeverIncreases ==
    s_call.called =>
        /\ StatsInMode(TRUE).volume <= StatsInMode(FALSE).volume
        /\ StatsInMode(TRUE).realized_pnl <= StatsInMode(FALSE).realized_pnl

\* C18 (amended): with builder_only = true the volume is at most the volume
\* with builder_only = false (prices and sizes not negative), and the
\* realized_pnl differs from the one with false by the total closed_pnl - fee
\* of the coin-filtered non-builder fills; it is at most the one with false
\* exactly when that total is not negative.
C18_BuilderOnlyDifference ==
    s_call.called =>
        /\ StatsInMode(TRUE).volume <= StatsInMode(FALSE).volume
        /\ StatsInMode(FALSE).realized_pnl - StatsInMode(TRUE).realized_pnl
              = SumNet(CoinIdx \ BuilderIdx)
        /\ (StatsInMode(TRUE).realized_pnl <= StatsInMode(FALSE).realized_pnl)
              <=> (SumNet(CoinIdx \ BuilderIdx) >= 0)

\* A builder-only call on a builder fill and a losing non-builder fill.
C18_Witness ==
    /\ s_call.called /\ s_call.builder_only
    /\ Cardinality(BuilderIdx) = 1 /\ Cardinality(CoinIdx) = 2
    /\ SumNet(CoinIdx \ BuilderIdx) < 0

\* C19: with builder_only = true exactly the coin-filtered builder fills are
\* counted (trade_count = builder_fill_count, volume their price * size
\* total); with false every coin-filtered fill is counted;
\* builder_fill_count is the same in both modes.
C19_CountedFills ==
    s_call.called =>
        /\ StatsInMode(TRUE).trade_count = Cardinality(BuilderIdx)
        /\ StatsInMode(TRUE).trade_count = StatsInMode(TRUE).builder_fill_count
        /\ StatsInMode(TRUE).volume = SumNotional(BuilderIdx)
        /\ StatsInMode(TRUE).realized_pnl = SumNet(BuilderIdx)
        /\ StatsInMode(FALSE).trade_count = Cardinality(CoinIdx)
        /\ StatsInMode(FALSE).volume = SumNotional(CoinIdx)
        /\ StatsInMode(FALSE).realized_pnl = SumNet(CoinIdx)
        /\ StatsInMode(FALSE).builder_fill_count = StatsInMode(TRUE).builder_fill_count

\* A builder-only call with a coin: of two fills the coin filter keeps one,
\* a builder fill; the other one is a builder fill of another asset.
C19_Witness ==
    /\ s_call.called /\ s_call.builder_only /\ s_call.coin.some
    /\ Len(s_fills) = 2 /\ s_builder = {1, 2}
    /\ s_call.result.trade_count = 1
    /\ s_call.result.volume = 2

\* Every listing of the assets of S, each once.
ListingsOf(S) == {o \in [1..Cardinality(S) -> S] : Range(o) = S}

\* calculate_pnl(Some(assets)).realized_pnl on the stored fills.
RealizedOf(assets) ==
    CalculatePnl(fills_by_asset, Some(assets),
                 CHOOSE o \in KeyOrders(fills_by_asset) : TRUE).realized_pnl

\* C20: for disjoint asset sets A and B, the realized_pnl calculated for
\* A \cup B is the sum of those calculated for A and for B.
C20_PnlLinear ==
    (p_call.op = "calculate_pnl" /\ p_call.assets.some
        /\ Cardinality(Range(p_call.assets.v)) = Len(p_call.assets.v)) =>
        \A A \in SUBSET Range(p_call.assets.v) :
            \A a \in ListingsOf(A), b \in ListingsOf(Range(p_call.assets.v) \ A) :
                p_call.result.realized_pnl = RealizedOf(a) + RealizedOf(b)

\* Fills of two assets are stored and the realized PnL of the two assets
\* together was calculated; the parts differ.
C20_Witness ==
    /\ p_call.op = "calculate_pnl" /\ p_call.assets.some
    /\ Len(p_call.assets.v) = 2
    /\ Range(p_call.assets.v) = DOMAIN fills_by_asset
    /\ p_call.result.realized_pnl = 1
    /\ RealizedOf(<<p_call.assets.v[1]>>) = 2

\* C21: every summary returned by calculate_pnl or calculate_pnl_in_range
\* has net_pnl = realized_pnl - total_fees, and every AssetPnL of its
\* by_asset map has net_pnl = realized_pnl - fees.
C21_NetPnlIdentity ==
    p_call.op \in {"calculate_pnl", "calculate_pnl_in_range"} =>
        /\ p_call.result.net_pnl = p_call.result.realized_pnl - p_call.result.total_fees
        /\ \A asset \in DOMAIN p_call.result.by_asset :
              LET asset_pnl == p_call.result.by_asset[asset]
              IN  asset_pnl.net_pnl = asset_pnl.realized_pnl - asset_pnl.fees

\* A range calculation that kept one of two stored fills of an asset.
C21_Witness ==
    /\ p_call.op = "calculate_pnl_in_range"
    /\ total_fill_count = 2
    /\ p_call.result.fill_count = 1
    /\ p_call.result.total_fees = 1
    /\ p_call.result.net_pnl = p_call.result.realized_pnl - 1
    /\ Cardinality(DOMAIN fills_by_asset) = 1

\* The builder fill b and the user fill of user agree on the six
\* components of the composite key (amounts compared as numbers).
SameFill(b, fill, user) ==
    /\ ToLowercase(b.user) = ToLowercase(user)
    /\ EqIgnoreAsciiCase(AssetSymbol(b.asset), AssetSymbol(fill.asset))
    /\ Timestamp(b.time_ms) = fill.timestamp_ms \div 1000
    /\ DecEq(b.size, fill.size)
    /\ DecEq(b.price, fill.price)
    /\ (b.side = "Bid") <=> (fill.side = "Buy")

SomeSameFill(fill, user) ==
    \E i \in 1..Len(builder_fills) : SameFill(builder_fills[i], fill, user)

\* C22: is_builder_fill(fill, user) is true iff some ingested builder fill
\* has the same user ignoring case, the same asset symbol ignoring case, a
\* time in whole seconds equal to floor(timestamp_ms / 1000), the same
\* size, the same price and the same side; a matching fill whose price
\* alone is changed matches only if a builder fill has the new price.
C22_MatchIffSameFill ==
    e_call.op = "is_builder_fill" =>
        /\ e_call.result <=> SomeSameFill(e_call.fill, e_call.user)
        /\ e_call.result =>
              \A price \in {One, OnePointZero, Two} :
                  LET changed == [e_call.fill EXCEPT !.price = price]
                  IN  ~DecEq(price, e_call.fill.price) =>
                          (IsBuilderFill(fills_by_key, changed, e_call.user)
                              <=> SomeSameFill(changed, e_call.user))

\* The fees and the notional values of every fill of the list.
ListFees == [i \in 1..Len(builder_fills) |-> builder_fills[i].builder_fee]
ListNotionals == [i \in 1..Len(builder_fills) |-> BuilderNotionalValue(builder_fills[i])]

\* C23: total_fills() is the length of the list given to new,
\* total_builder_fees() the sum of builder_fee and total_volume() the sum
\* of price * size over every fill of the list, fills of equal composite
\* key included.
C23_TotalsOverList ==
    e_call.op = "totals" =>
        /\ e_call.total_fills = Len(builder_fills)
        /\ DecEq(e_call.total_builder_fees, DecSum(ListFees))
        /\ DecEq(e_call.total_volume, DecSum(ListNotionals))

\* The trailing-zero-free rendering of a Decimal.
CanonicalString(d) == DecimalToString(Normalize(d))

\* C24: the key renders price and size in the canonical trailing-zero-free
\* form, so a builder fill and a user fill whose price and size are equal
\* as numbers have equal price and size strings in their keys.
C24_CanonicalKey ==
    e_call.op = "is_builder_fill" =>
        LET user_key == FromUserFill(e_call.fill, e_call.user)
        IN  /\ user_key.price = CanonicalString(e_call.fill.price)
            /\ user_key.size = CanonicalString(e_call.fill.size)
            /\ \A i \in 1..Len(builder_fills) :
                  LET b == builder_fills[i]
                      builder_key == FromBuilderFill(b)
                  IN  /\ builder_key.price = CanonicalString(b.price)
                      /\ builder_key.size = CanonicalString(b.size)
                      /\ DecEq(b.price, e_call.fill.price) => builder_key.price = user_key.price
                      /\ DecEq(b.size, e_call.fill.size) => builder_key.size = user_key.size

\* The fills of the Ok answers received, in the order received.
RECURSIVE FetchedFills(_)
FetchedFills(fetched) ==
    IF fetched = <<>> THEN <<>>
    ELSE Head(fetched).answer.fills \o FetchedFills(Tail(fetched))

\* How many times x occurs in seq.
CountOf(seq, x) == Cardinality({i \in 1..Len(seq) : seq[i] = x})

\* The days from..to were fetched once each in ascending order, the
\* answers before the last were fills or NotFound; Ok returns the fetched
\* fills by non-decreasing time; Err returns no fills and carries the error
\* of the last answer (InvalidDate when the day after NaiveDate::MAX is
\* asked for).
RangeFetchContract ==
    bc_pc # "idle" =>
        /\ \A i \in 1..Len(bc_fetched) :
              /\ bc_fetched[i].day = bc_from + i - 1
              /\ bc_fetched[i].day <= bc_to
        /\ \A i \in 1..(Len(bc_fetched) - 1) : bc_fetched[i].answer.kind \in {"Ok", "NotFound"}
        /\ bc_pc = "ok" =>
              /\ Len(bc_fetched) = (IF bc_from > bc_to THEN 0 ELSE bc_to - bc_from + 1)
              /\ \A i \in 1..Len(bc_fetched) : bc_fetched[i].answer.kind \in {"Ok", "NotFound"}
              /\ \A i \in 1..(Len(bc_ret) - 1) : bc_ret[i].time <= bc_ret[i + 1].time
              /\ \A fill \in BcFills :
                    CountOf(bc_ret, fill) = CountOf(FetchedFills(bc_fetched), fill)
        /\ bc_pc = "err" =>
              /\ bc_ret = <<>>
              /\ bc_fetched # <<>>
              /\ LET last == bc_fetched[Len(bc_fetched)]
                 IN  IF last.answer.kind \in {"Ok", "NotFound"}
                     THEN bc_err = "InvalidDate" /\ last.day = LastDay
                     ELSE bc_err = last.answer.kind

\* C25: fetch_fills_range(from, to) fetches each day of from..to once in
\* ascending order and terminates; NotFound days are skipped, another
\* error ends the call with that error and no fills, and Ok carries the
\* fetched fills ordered by non-decreasing time (none, without a fetch,
\* when from > to).
C25_RangeFetch ==
    /\ []RangeFetchContract
    /\ (bc_pc = "loop") ~> (bc_pc \in {"ok", "err"})

C25_Witness ==
    /\ bc_pc = "ok"
    /\ Len(bc_fetched) = 2
    /\ Len(bc_ret) = 2
    /\ bc_ret # bc_all_fills

\* The request is one the checks of get_leaderboard must refuse.
MustBeRefused ==
    \/ h_state.competition_users = <<>>
    \/ ~ParseMetric(h_query.metric).some
    \/ /\ h_query.metric \in {"returnPct", "RETURN"}
       /\ ~h_query.from_ms.some \/ ~h_query.max_start_capital.some

\* C26: a returnPct request without from_ms or without maxStartCapital, a
\* request with an unknown metric, and any request when no competition
\* user is configured are answered 400 before any builder-feed or
\* user-fill fetch is issued.
C26_RefusedBeforeFetch ==
    (h_pc # "idle" /\ MustBeRefused) =>
        /\ h_pc = "responded"
        /\ h_resp = 400
        /\ h_fetches = <<>>

C26_Witness ==
    /\ h_pc = "responded" /\ h_resp = 400 /\ h_fetches = <<>>
    /\ Len(h_state.competition_users) = 2
    /\ h_state.target_builder.some
    /\ h_query.metric = "returnPct"
    /\ h_query.from_ms.some
    /\ ~h_query.max_start_capital.some

\* C27: when user_fills_by_time returns Ok the fills are ordered by
\* non-increasing time, whatever the order inside the pages received.
C27_DescendingTime ==
    f_pc = "ok" =>
        \A i \in 1..(Len(f_ret) - 1) : f_ret[i].time >= f_ret[i + 1].time

C27_Witness ==
    /\ f_pc = "ok"
    /\ Len(f_ret) >= 2
    /\ f_ret[1].time > f_ret[Len(f_ret)].time

\* A clear() step empties the store and leaves is_running, the callers and
\* the task where they were.
ClearFrame ==
    q_call'.op = "clear" =>
        /\ store' = EmptyMap
        /\ is_running' = is_running
        /\ task_pc' = task_pc
        /\ c_pc' = c_pc

\* A fill_count() or get_fills() made right after a clear() sees no fill.
ReadAfterClear ==
    q_call.op = "clear" =>
        /\ q_call'.op = "fill_count" => q_call'.count = 0
        /\ q_call'.op = "get_fills" => q_call'.result = <<>>

\* Every fill received since the last clear() is in the store, whether or
\* not its trade id was stored before that clear().
StoredSinceClear ==
    \A t \in DOMAIN last_recv : t \in DOMAIN store /\ store[t] = last_recv[t]

\* C28: clear() empties the store (fill_count() = 0 and get_fills() empty
\* right after it) without changing is_running or stopping the task, and
\* the fills pushed afterwards are collected again.
C28_ClearKeepsCollecting ==
    /\ [][ClearFrame]_vars
    /\ [][ReadAfterClear]_vars
    /\ []StoredSinceClear

C28_Witness ==
    /\ q_call.op = "clear"
    /\ q_call.count = 2
    /\ store = EmptyMap
    /\ is_running
    /\ task_pc[1] = "wait"

\* C29: stop_collecting() called when no collector is running (never
\* started, or already stopped) returns without error and leaves
\* is_running = false and the stored fills unchanged.
C29_StopWhenNotRunning ==
    [][(q_call'.op = "stop_collecting" /\ ~is_running) =>
          /\ q_call'.status = "Ok"
          /\ is_running' = FALSE
          /\ store' = store]_vars

C29_Witness ==
    /\ q_call.op = "stop_collecting"
    /\ ~is_running
    /\ c_ret[1] = "Ok"
    /\ task_pc[1] = "done"
    /\ store # EmptyMap

\* The spellings a symbol may be given in.
Spellings == {"BTC", "btc", "NEWCOIN", "newcoin"}

\* The symbols of the closed variant set (the ones the model carries).
KnownSymbols == {"BTC", "ETH", "SOL"}

\* C30 as stated: any two spellings that differ only in letter case
\* construct equal assets, for known symbols and for symbols mapped to
\* Other, so a coin filter written in another case selects the same fills.
C30_CaseInsensitive ==
    (s_call.called /\ s_call.coin.some) =>
        \A spelling \in Spellings :
            EqIgnoreAsciiCase(spelling, s_call.coin.v) =>
                /\ AssetFromSymbol(spelling) = AssetFromSymbol(s_call.coin.v)
                /\ CoinFiltered(s_fills, Some(spelling)) = CoinFiltered(s_fills, s_call.coin)

\* C30 amended: spellings of a known symbol that differ only in letter
\* case construct the same asset and select the same fills; a symbol
\* mapped to Other keeps its spelling, so two spellings of it construct
\* equal assets only when they are identical.
C30_KnownCaseInsensitive ==
    (s_call.called /\ s_call.coin.some) =>
        \A spelling \in Spellings :
            EqIgnoreAsciiCase(spelling, s_call.coin.v) =>
                IF ToUpper(s_call.coin.v) \in KnownSymbols
                THEN /\ AssetFromSymbol(spelling) = AssetFromSymbol(s_call.coin.v)
                     /\ CoinFiltered(s_fills, Some(spelling))
                            = CoinFiltered(s_fills, s_call.coin)
                     /\ \A i \in 1..Len(s_fills) :
                           AssetSymbol(s_fills[i].asset) = ToUpper(s_call.coin.v)
                               => i \in CoinIdx
                ELSE (AssetFromSymbol(spelling) = AssetFromSymbol(s_call.coin.v))
                         <=> (spelling = s_call.coin.v)

C30_Witness ==
    /\ s_call.called /\ ~s_call.builder_only
    /\ s_call.coin = Some("btc")
    /\ Len(s_fills) = 2
    /\ s_fills[1].asset = AssetFromSymbol("BTC")
    /\ s_fills[2].asset = AssetFromSymbol("NEWCOIN")
    /\ s_call.result.trade_count = 1

\* C31: a failed page request (transport error, non-2xx status or
\* undecodable body) ends the call at once with a Network error, no other
\* request follows, and no fill accumulated from earlier pages is returned.
C31_FailureReturnsNothing ==
    /\ [](f_pc = "err" =>
            /\ f_err.cause \in FailureCauses
            /\ f_err.error = "Network"
            /\ f_ret = <<>>)
    /\ [][f_pc = "err" => UNCHANGED fetch_vars]_vars
    /\ [][(f_pc = "loop" /\ f_err' # NoError) => f_pc' = "err" /\ first_recv' = first_recv]_vars

C31_Witness ==
    /\ f_pc = "err"
    /\ f_err.cause = "body"
    /\ Len(all_fills) = MAX_FILLS_PER_REQUEST
    /\ current_end_time # f_end
    /\ f_ret = <<>>

\* The cursor a is earlier than the cursor b (None is no bound at all).
CursorBefore(a, b) == a.some /\ (b.some => a.v < b.v)

\* C32 as stated: the endTime cursor strictly decreases from each request
\* to the next, whatever the exchange answers.
C32_CursorDecreases ==
    [][(f_pc = "loop" /\ f_pc' = "loop") =>
          CursorBefore(current_end_time', current_end_time)]_vars

\* C32 amended: against an exchange that only returns fills with time <=
\* the requested endTime, a trade id always with the same time, the cursor
\* strictly decreases from each request to the next and the loop ends
\* after finitely many requests.
C32_CursorDecreasesIfHonoured ==
    /\ [][(f_pc = "loop" /\ f_pc' = "loop" /\ f_honest') =>
             CursorBefore(current_end_time', current_end_time)]_vars
    /\ <>(~f_honest \/ f_pc # "loop")

C32_Witness ==
    /\ f_pc = "loop"
    /\ f_honest
    /\ f_end = Some(3)
    /\ current_end_time = Some(0)
    /\ Len(all_fills) = 3

\* C33: against an exchange that holds fewer than MAX_TOTAL_FILLS matching
\* fills and answers every request with the most recent matching ones,
\* Ok carries every fill of the ledger with start_time <= time <= end_time.
C33_AllMatchingReturned ==
    f_pc = "ok" =>
        Range(f_ret) = Matching(f_ledger, StartTimeU64(f_start), RequestEndTime(f_end))

\* C34: a Ping, Pong, subscription-response or other non-fill message
\* leaves the fill store unchanged, and a closed-channel event changes
\* neither the store nor is_running and does not end the task, which goes
\* back to the top of its loop.
C34_NonFillFrame ==
    [][\A t \in Callers :
          (/\ task_pc[t] = "wait"
           /\ task_pc'[t] # "wait"
           /\ q_call'.frame \in NonFillFrames \cup {"Closed"})
          => /\ store' = store
             /\ is_running' = is_running
             /\ task_pc'[t] = "check"]_vars

C34_Witness ==
    /\ q_call.op = "recv"
    /\ q_call.frame = "Closed"
    /\ FillCount(store) = 2
    /\ is_running
    /\ \E t \in Callers : task_pc[t] = "check"

\* C35: start(user) with a string that does not parse as an address, on a
\* collector that is not running, returns InvalidInput, spawns no task and
\* leaves is_running = false and the store unchanged; a start with a valid
\* address made in the state it leaves passes the check and goes on to
\* mark the collector running.
C35_InvalidStartRefused ==
    /\ [][(q_call'.op = "start" /\ ~ParsesAsAddress(q_call'.user) /\ ~is_running) =>
            /\ q_call'.status = "InvalidInput"
            /\ \E c \in Callers : c_pc[c] = "idle" /\ c_ret'[c] = "InvalidInput"
            /\ c_pc' = c_pc
            /\ task_pc' = task_pc
            /\ is_running' = FALSE
            /\ store' = store]_vars
    /\ [](\A c \in Callers :
            (q_call.op = "start" /\ q_call.status = "InvalidInput" /\ c_pc[c] = "idle") =>
                ENABLED (StartCheck(c, "0xabc") /\ c_pc'[c] = "mark"))

C35_Witness ==
    /\ q_call.op = "start"
    /\ q_call.user = "bogus"
    /\ q_call.status = "InvalidInput"
    /\ c_ret[2] = "InvalidInput"
    /\ task_pc[2] = "none"
    /\ ~is_running
    /\ FillCount(store) = 2

\* C36: once a stop() has returned and until start() is called again, the
\* fills stay in the store (only clear() removes them) and no task inserts
\* one; no step of start() removes a fill.
C36_NoInsertAfterStop ==
    /\ [][(stop_returned /\ stop_returned') =>
             (store' = store \/ (q_call'.op = "clear" /\ store' = EmptyMap))]_vars
    /\ [][(\E c \in Callers : c_pc[c] \in {"idle", "mark", "spawn"} /\ c_pc'[c] # c_pc[c])
             => store' = store]_vars
    /\ [][q_call'.op = "start" => store' = store]_vars

\* The reads of the collector's store.
StoreReads == {"get_fills", "get_fills_in_range", "get_fills_for_asset", "fill_count"}

\* C37: a read made while the task runs sees each UserFills message
\* received so far applied in full or not at all (the store it reads is
\* the last fill per trade id of the whole messages), and no read
\* modifies the store.
C37_ReadsSeeWholeMessages ==
    /\ [](q_call.op = "get_fills" =>
            /\ Len(q_call.result) = FillCount(last_recv)
            /\ Range(q_call.result) = {last_recv[t] : t \in DOMAIN last_recv})
    /\ [](q_call.op = "fill_count" => q_call.count = FillCount(last_recv))
    /\ [][q_call'.op \in StoreReads \cup {"get_user_fills"} => store' = store]_vars

C37_Witness ==
    /\ q_call.op = "get_fills"
    /\ Len(q_call.result) = 2
    /\ is_running
    /\ task_pc[1] = "wait"
    /\ c_dup

\* C38: in WebSocket mode get_user_fills(user, ...) returns only fills of
\* `user`: asked for a user other than the one the collector subscribed
\* to, whose fills are the ones in the store, it returns none of them.
C38_OnlyFillsOfUser ==
    (/\ q_call.op = "get_user_fills"
     /\ fill_source = "WebSocket"
     /\ q_call.user # SubscribedUser)
    => q_call.result = <<>>

\* The sum of one field over the entries of by_asset.
RECURSIVE SumByAsset(_, _, _)
SumByAsset(by_asset, assets, field) ==
    IF assets = {} THEN 0
    ELSE LET a == CHOOSE x \in assets : TRUE
         IN  by_asset[a][field] + SumByAsset(by_asset, assets \ {a}, field)

\* C39: in every summary calculate_pnl(assets) returns, realized_pnl,
\* total_fees, fill_count and total_volume are the sums of the matching
\* fields over the entries of by_asset, whatever the filter (an asset
\* named twice or an asset without fills included).
C39_TotalsAreSumsOfByAsset ==
    p_call.op = "calculate_pnl" =>
        LET summary == p_call.result
            total(field) == SumByAsset(summary.by_asset, DOMAIN summary.by_asset, field)
        IN  /\ summary.realized_pnl = total("realized_pnl")
            /\ summary.total_fees = total("fees")
            /\ summary.fill_count = total("fill_count")
            /\ summary.total_volume = total("volume")

\* Every fill given to analyze_user_taint has a size > 0.
AllSizesPositive == \A i \in 1..Len(a_fills) : a_fills[i].size > 0

\* The fills the checker does not classify as builder fills.
NonBuilderFills == {i \in 1..Len(a_fills) : a_fills[i].trade_id \notin a_builder}

\* C40: for a fill list in which every size is > 0, analyze_user_taint
\* reports tainted = true exactly when at least one fill is not a builder
\* fill, and tainted_fills = total_fills - builder_fills.
C40_TaintedIffNonBuilderFill ==
    (a_result.called /\ AllSizesPositive) =>
        /\ a_result.tainted <=> (NonBuilderFills # {})
        /\ a_result.total_fills = Len(a_fills)
        /\ a_result.tainted_fills = a_result.total_fills - a_result.builder_fills
        /\ a_result.tainted_fills = Cardinality(NonBuilderFills)

C40_Witness ==
    /\ a_result.called
    /\ AllSizesPositive
    /\ Len(a_fills) = 2
    /\ a_fills[1].side = "Buy" /\ a_fills[2].side = "Sell"
    /\ a_fills[1].asset = a_fills[2].asset
    /\ a_builder = {}
    /\ a_result.tainted_fills = 2

====
